---- MODULE Spec2Model ----
(***************************************************************************)
(* A model of the splay engine core: the Reducer (engine_core/reducer.py), *)
(* the ActionGenerator (engine_core/action_generator.py), the GameState    *)
(* value types (engine_core/state.py) and the EffectResolver               *)
(* (engine_core/effect_resolver.py).                                       *)
(*                                                                         *)
(* Python objects that the code shares between snapshots (the              *)
(* action_history list, the dictionaries nested in metadata) live in two   *)
(* heaps, histHeap and dictHeap; a GameState record holds references into  *)
(* them, so that an in-place append or item assignment is visible through  *)
(* every snapshot that holds the same reference, as it is in Python.       *)
(***************************************************************************)
EXTENDS Integers, Sequences, FiniteSets, TLC

VARIABLES
    state,      \* the canonical GameState held by the session
    histHeap,   \* list objects: reference -> sequence of actions
    dictHeap,   \* nested metadata dict objects: reference -> set of <<key, value>>
    last,       \* the last Reducer.apply call: action, input, value before, result
    replay,     \* the replay harness: initial snapshot, script, run, finals
    resolver,   \* the EffectResolver object: state, effect_stack, pending_choice
    game,       \* the GameState threaded through the resolver's loop
    rcall,      \* the resolver call in progress and what it returned
    iteration   \* the iterations of the resolver's loops so far, modulo 2

vars == <<state, histHeap, dictHeap, last, replay, resolver, game, rcall, iteration>>

-----------------------------------------------------------------------------
(* Bounds of the model *)

\* Reducer.apply calls a session makes
MaxCalls == 2
\* EffectResolver.begin_effect calls made on one resolver
MaxEffects == 2
\* corrections in one USER_CORRECTION batch
MaxBatch == 2
\* actions in a replayed script
MaxScript == 2
\* the cards of a board stack whose icons are counted
MaxStack == 2

(* Program constants *)

\* "for try_age in range(age + 1, 11)": Innovation goes to age 10
MaxAge == 10
\* actions_remaining=2 in _handle_start_turn
TurnActions == 2

-----------------------------------------------------------------------------
(* Vocabulary *)

None == "None"

PlayerIds == {"human", "bot_1"}
Colors == {"red", "blue"}
SplayDirections == {"none", "left", "right", "up"}

\* The card table: a subset of games/innovation/cards.py, and the card of
\* tests/test_spec_validation.py test_spec_with_cards, which defines no effect
CardAge(card_id) ==
    CASE card_id = "archery" -> 1
      [] card_id = "test_card" -> 1
      [] card_id = "writing" -> 1
      [] card_id = "calendar" -> 2
      [] card_id = "compass" -> 3
      [] OTHER -> 0

CardColor(card_id) ==
    CASE card_id = "archery" -> "red"
      [] card_id = "writing" -> "blue"
      [] card_id = "calendar" -> "blue"
      [] card_id = "compass" -> "green"
      [] card_id = "test_card" -> "red"
      [] OTHER -> None

KnownCards == {"archery", "writing", "calendar", "compass"}

\* The card definitions whose effects list is empty
EffectlessCards == {"test_card"}

\* GameSpec.get_card: the definition of a card id, or None
HasCardDef(card_id) == card_id \in KnownCards \cup EffectlessCards

Card(card_id, instance_id) == [card_id |-> card_id, instance_id |-> instance_id]

-----------------------------------------------------------------------------
(* Sequence helpers *)

RECURSIVE SelectSeqBy(_, _)
\* [c for c in cards if c.instance_id != instance_id]
SelectSeqBy(cards, instance_id) ==
    IF cards = <<>> THEN <<>>
    ELSE IF Head(cards).instance_id # instance_id
         THEN <<Head(cards)>> \o SelectSeqBy(Tail(cards), instance_id)
         ELSE SelectSeqBy(Tail(cards), instance_id)

\* index of the first card with this card_id, 0 when there is none
FirstWithCardId(cards, card_id) ==
    IF \E i \in 1..Len(cards) : cards[i].card_id = card_id
    THEN CHOOSE i \in 1..Len(cards) :
            /\ cards[i].card_id = card_id
            /\ \A j \in 1..(i - 1) : cards[j].card_id # card_id
    ELSE 0

-----------------------------------------------------------------------------
(* engine_core/state.py *)

\* Zone.add
ZoneAdd(cards, card) == Append(cards, card)

\* Zone.remove: drops every card with the instance_id of `card`
ZoneRemove(cards, card) == SelectSeqBy(cards, card.instance_id)

EmptyStack == [cards |-> <<>>, splay_direction |-> "none"]

\* ZoneStack.top_card is cards[-1]
HasTop(stack) == stack.cards # <<>>
TopCard(stack) == stack.cards[Len(stack.cards)]

\* ZoneStack.add_top
AddTop(stack, card) == [stack EXCEPT !.cards = Append(@, card)]

\* ZoneStack.add_bottom
AddBottom(stack, card) == [stack EXCEPT !.cards = <<card>> \o @]

\* ZoneStack.set_splay
SetSplayDir(stack, direction) == [stack EXCEPT !.splay_direction = direction]

\* PlayerState(...) as the handlers rebuild it: _score is not passed on and
\* falls back to its default, 0
NewPlayer(player, hand, score_pile, achievements, board) ==
    [player_id |-> player.player_id, hand |-> hand, score_pile |-> score_pile,
     achievements |-> achievements, board |-> board, score |-> 0]

\* PlayerState.get_board_stack
GetBoardStack(player, color) ==
    IF color \in DOMAIN player.board THEN player.board[color] ELSE EmptyStack

\* {**player.board, color: new_stack}
BoardWith(board, color, stack) ==
    [c \in (DOMAIN board) \cup {color} |-> IF c = color THEN stack ELSE board[c]]

\* PlayerState.with_board_stack (keeps _score)
WithBoardStack(player, color, stack) ==
    [player EXCEPT !.board = BoardWith(player.board, color, stack)]

\* GameState.num_players
NumPlayers(s) == Len(s.players)

\* GameState.current_player is players[current_player_idx]: an IndexError when
\* the index is not one of the list (Python also accepts a negative index; the
\* model's indices are not negative)
CurrentPlayerRaises(s) == s.current_player_idx >= Len(s.players)
CurrentPlayer(s) == s.players[s.current_player_idx + 1]

\* GameState.get_player: the first player with this id; 0 stands for None
PlayerIndex(s, player_id) ==
    IF \E i \in 1..Len(s.players) : s.players[i].player_id = player_id
    THEN CHOOSE i \in 1..Len(s.players) :
            /\ s.players[i].player_id = player_id
            /\ \A j \in 1..(i - 1) : s.players[j].player_id # player_id
    ELSE 0

\* GameState._copy_with: every field not named is taken from self, the
\* action_history list and the metadata dict by reference
CopyWith(s, changes) ==
    [f \in DOMAIN s |-> IF f \in DOMAIN changes THEN changes[f] ELSE s[f]]

\* GameState.with_player
WithPlayer(s, player) ==
    CopyWith(s, [players |->
        [i \in 1..Len(s.players) |->
            IF s.players[i].player_id = player.player_id THEN player
            ELSE s.players[i]]])

\* GameState.with_deck
WithDeck(s, deck_key, deck) ==
    CopyWith(s, [supply_decks |->
        [k \in (DOMAIN s.supply_decks) \cup {deck_key} |->
            IF k = deck_key THEN deck ELSE s.supply_decks[k]]])

\* supply_decks.get(f"age_{age}") is a deck that is not empty
DeckHasCards(s, age) ==
    age \in DOMAIN s.supply_decks /\ s.supply_decks[age] # <<>>

-----------------------------------------------------------------------------
(* engine_core/action.py *)

NoState == [phase |-> None]

\* GameState.choice_required and EffectResolver.pending_choice hold a
\* PendingChoice or None; NoPending stands for None
NoPending ==
    [choice_id |-> <<>>, player_id |-> None, options |-> <<>>, min_choices |-> 0,
     max_choices |-> 0, optional |-> FALSE]

\* Action: the payload fields the engine core reads
MkAction(action_type, player_id, card_id, age, corrections) ==
    [action_type |-> action_type, player_id |-> player_id, card_id |-> card_id,
     age |-> age, corrections |-> corrections]

\* Action.draw / meld / dogma / achieve / choose; age 0 stands for None
ActionDraw(player_id, age) == MkAction("DRAW", player_id, None, age, <<>>)
ActionMeld(player_id, card_id) == MkAction("MELD", player_id, card_id, 0, <<>>)
ActionDogma(player_id, card_id) == MkAction("DOGMA", player_id, card_id, 0, <<>>)
ActionAchieve(player_id, card_id) == MkAction("ACHIEVE", player_id, card_id, 0, <<>>)
ActionOf(action_type, player_id) == MkAction(action_type, player_id, None, 0, <<>>)
ActionUserCorrection(corrections) ==
    MkAction("USER_CORRECTION", None, None, 0, corrections)

\* ActionResult.failure
Failure(error, error_code) ==
    [success |-> FALSE, new_state |-> NoState, error |-> error,
     error_code |-> error_code, raised |-> FALSE]

\* ActionResult.success_with_state
SuccessWithState(s) ==
    [success |-> TRUE, new_state |-> s, error |-> None, error_code |-> None,
     raised |-> FALSE]

\* An exception that leaves the call instead of an ActionResult
Raised(exception) ==
    [success |-> FALSE, new_state |-> NoState, error |-> exception,
     error_code |-> None, raised |-> TRUE]

-----------------------------------------------------------------------------
(* engine_core/action_generator.py *)

\* ActionGenerator._calculate_highest_top_card_age
HighestTopCardAge(player) ==
    LET ages == {CardAge(TopCard(player.board[c]).card_id) :
                    c \in {c \in DOMAIN player.board : HasTop(player.board[c])}}
                \cup {1}
    IN CHOOSE m \in ages : \A x \in ages : x <= m

\* ActionGenerator._calculate_score: one point per card of the score pile
CalculateScore(player) == Len(player.score_pile)

\* ActionGenerator._generate_setup_actions
GenerateSetupActions(s) == {ActionOf("START_TURN", None)}

\* ActionGenerator._generate_choice_actions: a stub that returns []
GenerateChoiceActions(s) == {}

\* ActionGenerator._generate_draw_actions
GenerateDrawActions(s, player_id) ==
    LET i == PlayerIndex(s, player_id) IN
    IF i = 0 THEN {}
    ELSE LET max_age == HighestTopCardAge(s.players[i])
             ages == {a \in max_age..MaxAge : DeckHasCards(s, a)}
         IN IF ages = {} THEN {}
            ELSE {ActionDraw(player_id, CHOOSE a \in ages : \A b \in ages : a <= b)}

\* ActionGenerator._generate_meld_actions
GenerateMeldActions(s, player_id) ==
    LET i == PlayerIndex(s, player_id) IN
    IF i = 0 THEN {}
    ELSE {ActionMeld(player_id, s.players[i].hand[k].card_id) :
            k \in 1..Len(s.players[i].hand)}

\* card_def.effects is not empty (every card of cards.py has a dogma effect)
HasEffects(card_id) == HasCardDef(card_id) /\ card_id \notin EffectlessCards

\* ActionGenerator._generate_dogma_actions
GenerateDogmaActions(s, player_id) ==
    LET i == PlayerIndex(s, player_id) IN
    IF i = 0 THEN {}
    ELSE LET board == s.players[i].board IN
         {ActionDogma(player_id, TopCard(board[c]).card_id) :
            c \in {c \in DOMAIN board :
                    HasTop(board[c]) /\ HasEffects(TopCard(board[c]).card_id)}}

\* ActionGenerator._generate_achieve_actions
GenerateAchieveActions(s, player_id) ==
    LET i == PlayerIndex(s, player_id) IN
    IF i = 0 THEN {}
    ELSE LET score == CalculateScore(s.players[i])
             highest_age == HighestTopCardAge(s.players[i])
         IN {ActionAchieve(player_id, s.achievements[k].card_id) :
                k \in {k \in 1..Len(s.achievements) :
                        /\ HasCardDef(s.achievements[k].card_id)
                        /\ CardAge(s.achievements[k].card_id) # 0
                        /\ score >= CardAge(s.achievements[k].card_id) * 5
                        /\ highest_age >= CardAge(s.achievements[k].card_id)}}

\* ActionGenerator.generate raises IndexError at state.current_player
GenerateRaises(s) ==
    /\ s.phase = "PLAYING"
    /\ s.choice_required = NoPending
    /\ CurrentPlayerRaises(s)

\* ActionGenerator.generate: the actions it returns (as a set)
Generate(s) ==
    IF s.phase = "GAME_OVER" THEN {}
    ELSE IF s.phase = "SETUP" THEN GenerateSetupActions(s)
    ELSE IF s.choice_required # NoPending THEN GenerateChoiceActions(s)
    ELSE IF GenerateRaises(s) THEN {}
    ELSE LET p == CurrentPlayer(s).player_id IN
         IF s.actions_remaining <= 0 THEN {ActionOf("END_TURN", p)}
         ELSE GenerateDrawActions(s, p) \cup GenerateMeldActions(s, p)
              \cup GenerateDogmaActions(s, p) \cup GenerateAchieveActions(s, p)
              \cup {ActionOf("PASS", p)}

-----------------------------------------------------------------------------
(* engine_core/corrections.py *)

\* A raw correction dict; the fields a type does not use are None
RawCorrection(type, zone_id, card_id, position, player_id, color, direction, key, value) ==
    [type |-> type, zone_id |-> zone_id, card_id |-> card_id, position |-> position,
     player_id |-> player_id, color |-> color, direction |-> direction,
     key |-> key, value |-> value]

CorrectionTypes ==
    {"set_card", "set_splay", "confirm_zone", "answer_question",
     "set_card_count", "set_deck_size"}

\* parse_correction raises ValueError for an unknown "type"
ParseRaises(raw) == raw.type \notin CorrectionTypes

\* parse_corrections raises when one of the dicts does
ParseCorrectionsRaises(corrections) ==
    \E i \in 1..Len(corrections) : ParseRaises(corrections[i])

-----------------------------------------------------------------------------
(* engine_core/reducer.py *)

PlayerActions == {"DRAW", "MELD", "DOGMA", "ACHIEVE", "PASS", "CHOOSE"}

HandledActions ==
    {"DRAW", "MELD", "DOGMA", "ACHIEVE", "PASS", "CHOOSE", "START_TURN",
     "END_TURN", "VISION_UPDATE", "USER_CORRECTION"}

\* Reducer._validate_action raises IndexError at state.current_player
ValidateRaises(s, a) ==
    /\ ~(s.phase = "GAME_OVER" /\ a.action_type \notin {"VISION_UPDATE", "USER_CORRECTION"})
    /\ ~(s.phase = "SETUP"
         /\ a.action_type \notin {"SETUP_GAME", "VISION_UPDATE", "USER_CORRECTION"})
    /\ a.action_type \in PlayerActions
    /\ CurrentPlayerRaises(s)

\* A validation that lets only vision updates through once the game is over
ValidateAction_NoCorrectionsAfterGameOver(s, a) ==
    IF s.phase = "GAME_OVER" /\ a.action_type \notin {"VISION_UPDATE"}
    THEN "Game is over - no actions allowed"
    ELSE IF s.phase = "SETUP"
            /\ a.action_type \notin {"SETUP_GAME", "VISION_UPDATE", "USER_CORRECTION"}
    THEN "Game not started - only setup actions allowed"
    ELSE IF a.action_type \in PlayerActions
            /\ a.player_id # CurrentPlayer(s).player_id
            /\ a.action_type # "CHOOSE"
    THEN "Not player's turn"
    ELSE IF a.action_type \in PlayerActions
            /\ s.actions_remaining <= 0
            /\ a.action_type # "CHOOSE"
    THEN "No actions remaining this turn"
    ELSE None

\* Reducer._validate_action: the error message, or None when the action is valid
ValidateAction(s, a) ==
    IF s.phase = "GAME_OVER" /\ a.action_type \notin {"VISION_UPDATE", "USER_CORRECTION"}
    THEN "Game is over - no actions allowed"
    ELSE IF s.phase = "SETUP"
            /\ a.action_type \notin {"SETUP_GAME", "VISION_UPDATE", "USER_CORRECTION"}
    THEN "Game not started - only setup actions allowed"
    ELSE IF a.action_type \in PlayerActions
            /\ a.player_id # CurrentPlayer(s).player_id
            /\ a.action_type # "CHOOSE"
    THEN "Not player's turn"
    ELSE IF a.action_type \in PlayerActions
            /\ s.actions_remaining <= 0
            /\ a.action_type # "CHOOSE"
    THEN "No actions remaining this turn"
    ELSE None

\* Reducer._calculate_draw_age
CalculateDrawAge(player) == HighestTopCardAge(player)

\* Reducer._handle_draw drawing the bottom card of the deck
HandleDraw_BottomCard(s, a) ==
    LET i == PlayerIndex(s, a.player_id) IN
    IF i = 0 THEN Failure("Player not found", None)
    ELSE
    LET player == s.players[i]
        age == IF a.age = 0 THEN CalculateDrawAge(player) ELSE a.age
        higher == {t \in (age + 1)..MaxAge : DeckHasCards(s, t)}
        deck_key == IF DeckHasCards(s, age) THEN age
                    ELSE IF higher = {} THEN 0
                    ELSE CHOOSE t \in higher : \A u \in higher : t <= u
    IN IF deck_key = 0 THEN Failure("No cards to draw - game should end", None)
       ELSE
       LET deck == s.supply_decks[deck_key]
           card == deck[Len(deck)]
           new_deck == SubSeq(deck, 1, Len(deck) - 1)
           new_player == NewPlayer(player, ZoneAdd(player.hand, card),
                            player.score_pile, player.achievements, player.board)
           new_state == WithDeck(WithPlayer(s, new_player), deck_key, new_deck)
       IN SuccessWithState(
            CopyWith(new_state, [actions_remaining |-> s.actions_remaining - 1]))

\* Reducer._handle_draw
HandleDraw(s, a) ==
    LET i == PlayerIndex(s, a.player_id) IN
    IF i = 0 THEN Failure("Player not found", None)
    ELSE
    LET player == s.players[i]
        age == IF a.age = 0 THEN CalculateDrawAge(player) ELSE a.age
        higher == {t \in (age + 1)..MaxAge : DeckHasCards(s, t)}
        deck_key == IF DeckHasCards(s, age) THEN age
                    ELSE IF higher = {} THEN 0
                    ELSE CHOOSE t \in higher : \A u \in higher : t <= u
    IN IF deck_key = 0 THEN Failure("No cards to draw - game should end", None)
       ELSE
       LET deck == s.supply_decks[deck_key]
           card == deck[1]
           new_deck == Tail(deck)
           new_player == NewPlayer(player, ZoneAdd(player.hand, card),
                            player.score_pile, player.achievements, player.board)
           new_state == WithDeck(WithPlayer(s, new_player), deck_key, new_deck)
       IN SuccessWithState(
            CopyWith(new_state, [actions_remaining |-> s.actions_remaining - 1]))

\* Reducer._handle_meld
HandleMeld(s, a) ==
    LET i == PlayerIndex(s, a.player_id) IN
    IF i = 0 THEN Failure("Player not found", None)
    ELSE
    LET player == s.players[i]
        k == FirstWithCardId(player.hand, a.card_id)
    IN IF k = 0 THEN Failure("Card not in hand", None)
       ELSE IF ~HasCardDef(a.card_id) \/ CardColor(a.card_id) = None
       THEN Failure("Card has no color defined", None)
       ELSE
       LET card == player.hand[k]
           color == CardColor(a.card_id)
           new_hand == ZoneRemove(player.hand, card)
           new_stack == AddTop(GetBoardStack(player, color), card)
           new_player == NewPlayer(player, new_hand, player.score_pile,
                            player.achievements, BoardWith(player.board, color, new_stack))
           new_state == WithPlayer(s, new_player)
       IN SuccessWithState(
            CopyWith(new_state, [actions_remaining |-> s.actions_remaining - 1]))

\* Reducer._handle_dogma counting the action twice
HandleDogma_CountsTwice(s, a) ==
    LET i == PlayerIndex(s, a.player_id) IN
    IF i = 0 THEN Failure("Player not found", None)
    ELSE
    LET player == s.players[i]
        found == \E c \in DOMAIN player.board :
                    HasTop(player.board[c]) /\ TopCard(player.board[c]).card_id = a.card_id
    IN IF ~found THEN Failure("Card is not on top of any pile", None)
       ELSE IF ~HasCardDef(a.card_id) THEN Failure("Card definition not found", None)
       ELSE SuccessWithState(
                CopyWith(s, [actions_remaining |-> s.actions_remaining - 2]))

\* Reducer._handle_dogma: the effects are not queued (a stub); only the action
\* is counted
HandleDogma(s, a) ==
    LET i == PlayerIndex(s, a.player_id) IN
    IF i = 0 THEN Failure("Player not found", None)
    ELSE
    LET player == s.players[i]
        found == \E c \in DOMAIN player.board :
                    HasTop(player.board[c]) /\ TopCard(player.board[c]).card_id = a.card_id
    IN IF ~found THEN Failure("Card is not on top of any pile", None)
       ELSE IF ~HasCardDef(a.card_id) THEN Failure("Card definition not found", None)
       ELSE SuccessWithState(
                CopyWith(s, [actions_remaining |-> s.actions_remaining - 1]))

\* Reducer._handle_achieve
HandleAchieve(s, a) ==
    LET i == PlayerIndex(s, a.player_id) IN
    IF i = 0 THEN Failure("Player not found", None)
    ELSE
    LET player == s.players[i]
        k == FirstWithCardId(s.achievements, a.card_id)
    IN IF k = 0 THEN Failure("Achievement not available", None)
       ELSE
       LET achievement_card == s.achievements[k]
           new_shared == ZoneRemove(s.achievements, achievement_card)
           new_player == NewPlayer(player, player.hand, player.score_pile,
                            ZoneAdd(player.achievements, achievement_card), player.board)
       IN SuccessWithState(
            CopyWith(WithPlayer(s, new_player),
                [achievements |-> new_shared,
                 actions_remaining |-> s.actions_remaining - 1]))

\* Reducer._handle_pass
HandlePass(s, a) == SuccessWithState(CopyWith(s, [actions_remaining |-> 0]))

\* Reducer._handle_choose: a stub that always fails
HandleChoose(s, a) ==
    IF s.choice_required = NoPending THEN Failure("No choice pending", None)
    ELSE Failure("Choice handling not yet implemented", None)

\* Reducer._handle_start_turn; the change message reads state.current_player
HandleStartTurn(s, a) ==
    IF CurrentPlayerRaises(s) THEN Failure("IndexError", "HANDLER_ERROR")
    ELSE SuccessWithState(
            CopyWith(s, [actions_remaining |-> TurnActions, phase |-> "PLAYING"]))

\* An end of turn that moves to the next index without wrapping around
HandleEndTurn_NoWrap(s, a) ==
    IF NumPlayers(s) = 0 THEN Failure("ZeroDivisionError", "HANDLER_ERROR")
    ELSE SuccessWithState(
            CopyWith(s, [current_player_idx |-> s.current_player_idx + 1,
                         turn_number |-> s.turn_number + 1,
                         actions_remaining |-> 0]))

\* Reducer._handle_end_turn; "% state.num_players" divides by zero without players
HandleEndTurn(s, a) ==
    IF NumPlayers(s) = 0 THEN Failure("ZeroDivisionError", "HANDLER_ERROR")
    ELSE SuccessWithState(
            CopyWith(s, [current_player_idx |-> (s.current_player_idx + 1) % NumPlayers(s),
                         turn_number |-> s.turn_number + 1,
                         actions_remaining |-> 0]))

\* Reducer._handle_vision_update: a stub that always fails
HandleVisionUpdate(s, a) == Failure("Vision update not yet implemented", None)

-----------------------------------------------------------------------------
(* Reducer: USER_CORRECTION *)

MetaKeys == {"correction_answers", "corrected_counts", "corrected_deck_sizes"}

\* d[key] = value on a dict held as a set of <<key, value>> pairs
DictPut(d, key, value) == {e \in d : e[1] # key} \cup {<<key, value>>}

\* What _apply_set_card reads off the zone_id strings the model uses:
\* '"_board_" in zone_id', '"_hand" in zone_id', zone_id.split("_board_"),
\* zone_id.replace("_hand", "")
ZoneKind(zone_id) ==
    CASE zone_id = "human_board_red" -> "board"
      [] zone_id = "human_hand" -> "hand"
      [] zone_id = "ghost_hand" -> "hand"
      [] OTHER -> "other"

ZonePlayer(zone_id) ==
    CASE zone_id = "human_board_red" -> "human"
      [] zone_id = "human_hand" -> "human"
      [] zone_id = "ghost_hand" -> "ghost"
      [] OTHER -> None

ZoneColor(zone_id) ==
    CASE zone_id = "human_board_red" -> "red"
      [] OTHER -> None

\* f"{card_id}_corrected" for the card ids the model's corrections name
CorrectedInstanceId(card_id) ==
    CASE card_id = "calendar" -> "calendar_corrected"
      [] card_id = "archery" -> "archery_corrected"
      [] card_id = "writing" -> "writing_corrected"
      [] card_id = "test_card" -> "test_card_corrected"
      [] OTHER -> "unknown_corrected"

\* A correction's outcome: the ActionResult and the dict heap after it
Outcome(result, dicts) == [result |-> result, dicts |-> dicts]

\* Reducer._apply_set_card: builds Card(card_id, f"{card_id}_corrected")
ApplySetCard(s, c) ==
    LET player_id == IF c.player_id # None THEN c.player_id ELSE ZonePlayer(c.zone_id)
        i == PlayerIndex(s, player_id)
        card == Card(c.card_id, CorrectedInstanceId(c.card_id))
    IN IF ZoneKind(c.zone_id) = "board" THEN
            IF i = 0 THEN Failure("Player not found", None)
            ELSE LET player == s.players[i]
                     color == ZoneColor(c.zone_id)
                     stack == GetBoardStack(player, color)
                     new_stack == IF c.position = "bottom" THEN AddBottom(stack, card)
                                  ELSE AddTop(stack, card)
                 IN SuccessWithState(WithPlayer(s, WithBoardStack(player, color, new_stack)))
       ELSE IF ZoneKind(c.zone_id) = "hand" THEN
            IF i = 0 THEN Failure("Player not found", None)
            ELSE LET player == s.players[i]
                     new_player == NewPlayer(player, ZoneAdd(player.hand, card),
                                    player.score_pile, player.achievements, player.board)
                 IN SuccessWithState(WithPlayer(s, new_player))
       ELSE Failure("Zone not yet supported for SetCard", None)

\* Reducer._apply_set_splay
ApplySetSplay(s, c) ==
    LET i == PlayerIndex(s, c.player_id) IN
    IF i = 0 THEN Failure("Player not found", None)
    ELSE IF c.direction \notin SplayDirections THEN Failure("Invalid splay direction", None)
    ELSE LET player == s.players[i]
             new_stack == SetSplayDir(GetBoardStack(player, c.color), c.direction)
         IN SuccessWithState(WithPlayer(s, WithBoardStack(player, c.color, new_stack)))

\* A confirm_zone that ends the player's turn while confirming
ApplyConfirmZone_EndsTurn(s, c) ==
    SuccessWithState(CopyWith(s, [actions_remaining |-> 0, turn_number |-> s.turn_number + 1]))

\* Reducer._apply_confirm_zone: succeeds with the state it was given
ApplyConfirmZone(s, c) == SuccessWithState(s)

\* The body shared by _apply_answer_question, _apply_set_card_count and
\* _apply_set_deck_size:
\*     new_metadata = state.metadata.copy()          (a shallow copy)
\*     nested = new_metadata.get(meta_key, {})        (the nested dict itself)
\*     nested[key] = value                            (assigned in place)
\*     new_metadata[meta_key] = nested
ApplyMetadataEntry(s, dicts, meta_key, key, value) ==
    LET present == s.metadata[meta_key] # 0
        ref == IF present THEN s.metadata[meta_key] ELSE Len(dicts) + 1
        dicts1 == IF present THEN dicts ELSE Append(dicts, {})
        dicts2 == [dicts1 EXCEPT ![ref] = DictPut(@, key, value)]
        new_metadata == [s.metadata EXCEPT ![meta_key] = ref]
    IN Outcome(SuccessWithState(CopyWith(s, [metadata |-> new_metadata])), dicts2)

\* Reducer._apply_answer_question
ApplyAnswerQuestion(s, c, dicts) ==
    ApplyMetadataEntry(s, dicts, "correction_answers", c.key, c.value)

\* Reducer._apply_set_card_count
ApplySetCardCount(s, c, dicts) ==
    ApplyMetadataEntry(s, dicts, "corrected_counts", c.zone_id, c.value)

\* Reducer._apply_set_deck_size
ApplySetDeckSize(s, c, dicts) ==
    ApplyMetadataEntry(s, dicts, "corrected_deck_sizes", c.key, c.value)

\* Reducer._apply_single_correction
ApplySingleCorrection(s, c, dicts) ==
    CASE c.type = "set_card" -> Outcome(ApplySetCard(s, c), dicts)
      [] c.type = "set_splay" -> Outcome(ApplySetSplay(s, c), dicts)
      [] c.type = "confirm_zone" -> Outcome(ApplyConfirmZone(s, c), dicts)
      [] c.type = "answer_question" -> ApplyAnswerQuestion(s, c, dicts)
      [] c.type = "set_card_count" -> ApplySetCardCount(s, c, dicts)
      [] c.type = "set_deck_size" -> ApplySetDeckSize(s, c, dicts)
      [] OTHER -> Outcome(Failure("Unknown correction type", None), dicts)

RECURSIVE ApplyCorrections(_, _, _)
\* The loop of _handle_user_correction: each correction is applied to the
\* state the one before it returned; the first failure is returned as it is
ApplyCorrections(s, corrections, dicts) ==
    IF corrections = <<>> THEN Outcome(SuccessWithState(s), dicts)
    ELSE LET o == ApplySingleCorrection(s, Head(corrections), dicts) IN
         IF ~o.result.success THEN o
         ELSE ApplyCorrections(o.result.new_state, Tail(corrections), o.dicts)

\* The dicts a failed batch allocated are referenced by no state: dropped
Collect(before, after) == SubSeq(after, 1, Len(before))

\* Reducer._handle_user_correction
HandleUserCorrection(s, a, dicts) ==
    IF a.corrections = <<>> THEN Outcome(Failure("No corrections provided", None), dicts)
    ELSE IF ParseCorrectionsRaises(a.corrections)
    THEN Outcome(Failure("Invalid correction format", None), dicts)
    ELSE LET o == ApplyCorrections(s, a.corrections, dicts) IN
         IF o.result.success THEN o
         ELSE Outcome(o.result, Collect(dicts, o.dicts))

\* The handler _get_handler returns, called
Handle(s, a, dicts) ==
    CASE a.action_type = "DRAW" -> Outcome(HandleDraw(s, a), dicts)
      [] a.action_type = "MELD" -> Outcome(HandleMeld(s, a), dicts)
      [] a.action_type = "DOGMA" -> Outcome(HandleDogma(s, a), dicts)
      [] a.action_type = "ACHIEVE" -> Outcome(HandleAchieve(s, a), dicts)
      [] a.action_type = "PASS" -> Outcome(HandlePass(s, a), dicts)
      [] a.action_type = "CHOOSE" -> Outcome(HandleChoose(s, a), dicts)
      [] a.action_type = "START_TURN" -> Outcome(HandleStartTurn(s, a), dicts)
      [] a.action_type = "END_TURN" -> Outcome(HandleEndTurn(s, a), dicts)
      [] a.action_type = "VISION_UPDATE" -> Outcome(HandleVisionUpdate(s, a), dicts)
      [] a.action_type = "USER_CORRECTION" -> HandleUserCorrection(s, a, dicts)

\* A log that records nothing
LogAction_Nothing(hist, new_state, a) == hist

\* result.new_state.action_history.append(action): an append to the list
\* object the new state refers to
LogAction(hist, new_state, a) ==
    [hist EXCEPT ![new_state.action_history] = Append(@, a)]

\* What a Reducer.apply call leaves behind: its result and the two heaps
Applied(result, hist, dicts) == [result |-> result, hist |-> hist, dicts |-> dicts]

\* Reducer.apply, after the handler returned o: a successful result's new
\* state gets the action appended to its action_history list
ApplyHandled(o, a, hist) ==
    IF o.result.success
    THEN Applied(o.result, LogAction(hist, o.result.new_state, a), o.dicts)
    ELSE Applied(o.result, hist, o.dicts)

\* Reducer.apply
ReducerApply(s, a, hist, dicts) ==
    IF ValidateRaises(s, a) THEN Applied(Raised("IndexError"), hist, dicts)
    ELSE IF ValidateAction(s, a) # None
    THEN Applied(Failure(ValidateAction(s, a), "INVALID_ACTION"), hist, dicts)
    ELSE IF a.action_type \notin HandledActions
    THEN Applied(Failure("No handler for action type", "NO_HANDLER"), hist, dicts)
    ELSE ApplyHandled(Handle(s, a, dicts), a, hist)

-----------------------------------------------------------------------------
(* spec_schema/effect_dsl.py *)

\* ChoiceSpec(choice_type="card", source, optional); NoChoiceSpec stands for
\* choice_spec=None
ChoiceSpec(source, optional) ==
    [source |-> source, optional |-> optional, min_choices |-> 1, max_choices |-> 1]
NoChoiceSpec == [source |-> None, optional |-> FALSE, min_choices |-> 0, max_choices |-> 0]

\* EffectStep: the fields the resolver reads. params: count, age (0 stands for
\* no "age" entry), card_source, card, color, direction, source, destination,
\* selection; condition is the Condition's expression; loop_steps is empty and
\* loop_source is None unless a constructor sets them, and max_iterations is
\* the declared number, -1 standing for None
EffectStep(step_type, step_id, count, age, card_source, card, choice_spec, condition, then_steps, else_steps) ==
    [step_type |-> step_type, step_id |-> step_id, count |-> count, age |-> age,
     card_source |-> card_source, card |-> card, choice_spec |-> choice_spec,
     condition |-> condition, then_steps |-> then_steps, else_steps |-> else_steps,
     loop_steps |-> <<>>, color |-> None, direction |-> None,
     loop_source |-> None, max_iterations |-> -1,
     source |-> None, destination |-> None, selection |-> None]

\* draw_step(step_id, count, age)
draw_step(step_id, count, age) ==
    EffectStep("DRAW", step_id, count, age, None, None, NoChoiceSpec, None, <<>>, <<>>)

\* meld_step(step_id, card_source)
meld_step(step_id, card_source) ==
    EffectStep("MELD", step_id, 1, 0, card_source, None, NoChoiceSpec, None, <<>>, <<>>)

\* choose_card_step(step_id, source, optional=...)
choose_card_step(step_id, source, optional) ==
    EffectStep("CHOOSE_CARD", step_id, 1, 0, None, None, ChoiceSpec(source, optional),
               None, <<>>, <<>>)

\* conditional_step(step_id, condition_expr, then_steps)
conditional_step(step_id, condition_expr, then_steps) ==
    EffectStep("CONDITIONAL", step_id, 1, 0, None, None, NoChoiceSpec,
               condition_expr, then_steps, <<>>)

\* EffectStep(step_type=..., step_id=...) with nothing else set
bare_step(step_type, step_id) ==
    EffectStep(step_type, step_id, 1, 0, None, None, NoChoiceSpec, None, <<>>, <<>>)

\* demand_step(step_id, inner_steps): the inner steps are kept in loop_steps
demand_step(step_id, inner_steps) ==
    [bare_step("DEMAND", step_id) EXCEPT !.loop_steps = inner_steps]

\* for_each_step(step_id, loop_var, source_expr, steps, max_iterations); the
\* name of the loop variable, which no modelled step reads, is left out
for_each_step(step_id, source_expr, steps, max_iterations) ==
    [bare_step("FOR_EACH", step_id) EXCEPT
        !.loop_source = source_expr, !.loop_steps = steps,
        !.max_iterations = max_iterations]

\* EffectStep(step_type=StepType.TRANSFER, step_id=..., params={"source": ...,
\* "destination": ..., "selection": ...})
transfer_step(step_id, source, destination, selection) ==
    [bare_step("TRANSFER", step_id) EXCEPT
        !.source = source, !.destination = destination, !.selection = selection]

\* splay_step(step_id, color, direction)
splay_step(step_id, color, direction) ==
    [bare_step("SPLAY", step_id) EXCEPT !.color = color, !.direction = direction]

\* Effect
Effect(effect_id, effect_type, trigger_icon, steps) ==
    [effect_id |-> effect_id, effect_type |-> effect_type,
     trigger_icon |-> trigger_icon, steps |-> steps]

-----------------------------------------------------------------------------
(* engine_core/effect_resolver.py and engine_core/expression.py *)

\* EffectContext.variables: the entries the modelled steps write or read.
\* chosen_card and choice_made are read by steps and conditions; no code of
\* the engine writes them
NoVariables ==
    [chosen_card |-> None, choice_made |-> FALSE, drawn_card |-> None,
     last_drawn_age |-> 0, no_cards |-> FALSE]

\* EffectContext(effect, source_player_id, variables)
EffectContext(effect, source_player_id, variables) ==
    [effect |-> effect, source_player_id |-> source_player_id,
     current_step_index |-> 0, variables |-> variables, resolved_choices |-> {},
     players_who_shared |-> <<>>, share_bonus_pending |-> FALSE]

NoContext == [source_player_id |-> None]

\* PendingChoice. An effect_id is the sequence of the parts that the code joins
\* with "_", and so is the choice_id f"{effect_id}_{step_id}"
PendingChoice(effect_id, step_id, player_id, options, choice_spec) ==
    [choice_id |-> Append(effect_id, step_id), player_id |-> player_id,
     options |-> options, min_choices |-> choice_spec.min_choices,
     max_choices |-> choice_spec.max_choices, optional |-> choice_spec.optional]

\* StepResult, with the variables of the context as the handler left them
StepResult(new_state, pending_choice, sub_context, error, variables) ==
    [new_state |-> new_state, needs_choice |-> pending_choice # NoPending,
     pending_choice |-> pending_choice, sub_context |-> sub_context,
     error |-> error, variables |-> variables]

StepError(error, context) ==
    StepResult(NoState, NoPending, NoContext, error, context.variables)

StepState(new_state, variables) ==
    StepResult(new_state, NoPending, NoContext, None, variables)

\* CardDefinition.icons of the card table
CardIcons(card_id) ==
    CASE card_id = "archery" ->
            [top_left |-> "castle", bottom_left |-> "lightbulb",
             bottom_center |-> "empty", bottom_right |-> "castle"]
      [] card_id = "writing" ->
            [top_left |-> "empty", bottom_left |-> "lightbulb",
             bottom_center |-> "lightbulb", bottom_right |-> "crown"]
      [] card_id = "calendar" ->
            [top_left |-> "empty", bottom_left |-> "leaf",
             bottom_center |-> "leaf", bottom_right |-> "lightbulb"]
      [] card_id = "compass" ->
            [top_left |-> "empty", bottom_left |-> "crown",
             bottom_center |-> "crown", bottom_right |-> "leaf"]
      [] OTHER -> [top_left |-> "empty"]

\* EffectResolver._count_icons: the positions of a card that count
VisiblePositions(card_id, is_top, splay_direction) ==
    IF is_top THEN DOMAIN CardIcons(card_id)
    ELSE IF splay_direction = "left" THEN {"bottom_right"}
    ELSE IF splay_direction = "right" THEN {"top_left", "bottom_left"}
    ELSE IF splay_direction = "up" THEN {"bottom_left", "bottom_center", "bottom_right"}
    ELSE {}

\* EffectResolver._count_icons
CountIcons(player, icon) ==
    IF icon = None THEN 0
    ELSE Cardinality(UNION {UNION {
            {<<c, i, pos>> :
                pos \in {q \in VisiblePositions(player.board[c].cards[i].card_id,
                                                i = Len(player.board[c].cards),
                                                player.board[c].splay_direction) :
                            /\ HasCardDef(player.board[c].cards[i].card_id)
                            /\ q \in DOMAIN CardIcons(player.board[c].cards[i].card_id)
                            /\ CardIcons(player.board[c].cards[i].card_id)[q] = icon}} :
            i \in 1..Len(player.board[c].cards)} :
            c \in DOMAIN player.board})

-----------------------------------------------------------------------------
(* games/innovation/icons.py *)

\* Icon, without Icon.EMPTY
Icons == {"castle", "crown", "leaf", "lightbulb", "factory", "clock"}

\* _str_to_icon: a string that names no icon is Icon.EMPTY
StrToIcon(s) == IF s \in Icons THEN s ELSE "empty"

\* CardIcons.as_list: [top_left, bottom_left, bottom_center, bottom_right]
IconPositions == <<"top_left", "bottom_left", "bottom_center", "bottom_right">>

\* _get_card_icons(card_def).as_list()
GetCardIcons(card_id) ==
    [k \in DOMAIN IconPositions |->
        IF IconPositions[k] \in DOMAIN CardIcons(card_id)
        THEN StrToIcon(CardIcons(card_id)[IconPositions[k]])
        ELSE "empty"]

\* _get_visible_positions: the positions of a covered card that show, as
\* indices of as_list (from 1)
GetVisiblePositions(splay) ==
    CASE splay = "none" -> {}
      [] splay = "left" -> {1, 2}
      [] splay = "right" -> {4}
      [] splay = "up" -> {2, 3, 4}
      [] OTHER -> {}

\* count_icons(player, spec, target_icon)
count_icons(player, target_icon) ==
    Cardinality(UNION {UNION {
            {<<c, i, k>> :
                k \in {q \in (IF i = Len(player.board[c].cards)
                              THEN DOMAIN IconPositions
                              ELSE GetVisiblePositions(player.board[c].splay_direction)) :
                            /\ HasCardDef(player.board[c].cards[i].card_id)
                            /\ GetCardIcons(player.board[c].cards[i].card_id)[q] # "empty"
                            /\ GetCardIcons(player.board[c].cards[i].card_id)[q]
                                    = target_icon}} :
            i \in 1..Len(player.board[c].cards)} :
            c \in DOMAIN player.board})

-----------------------------------------------------------------------------
(* engine_core/effect_resolver.py: sharing and steps *)

RECURSIVE SharingPlayers(_, _, _, _)
\* EffectResolver._setup_sharing: the other players, in seating order from
\* seat i on, with at least as many trigger icons as the source player
SharingPlayers(g, source_player_id, trigger_icon, i) ==
    IF i > Len(g.players) THEN <<>>
    ELSE LET rest == SharingPlayers(g, source_player_id, trigger_icon, i + 1)
             source == g.players[PlayerIndex(g, source_player_id)]
         IN IF /\ g.players[i].player_id # source_player_id
               /\ CountIcons(g.players[i], trigger_icon) >= CountIcons(source, trigger_icon)
            THEN <<g.players[i].player_id>> \o rest
            ELSE rest

\* EffectResolver._setup_sharing
SetupSharing(g, context, trigger_icon) ==
    IF PlayerIndex(g, context.source_player_id) = 0 THEN context
    ELSE [context EXCEPT
            !.players_who_shared =
                @ \o SharingPlayers(g, context.source_player_id, trigger_icon, 1),
            !.share_bonus_pending =
                SharingPlayers(g, context.source_player_id, trigger_icon, 1) # <<>>]

\* EffectResolver._resolve_target_player: the source player for every target
ResolveTargetPlayer(context, step) == context.source_player_id

\* EffectResolver._get_highest_top_card_age
GetHighestTopCardAge(player) == HighestTopCardAge(player)

\* _step_draw, the search `while draw_age <= 10`: the first age from `age` on
\* whose deck has cards, or 0
FindDrawAge(g, age) ==
    IF \E d \in age..MaxAge : DeckHasCards(g, d)
    THEN CHOOSE d \in age..MaxAge :
            DeckHasCards(g, d) /\ \A e \in age..(d - 1) : ~DeckHasCards(g, e)
    ELSE 0

RECURSIVE DrawCards(_, _, _, _, _)
\* _step_draw, the loop `for _ in range(count)`: the game state and the
\* context variables after it
DrawCards(g, variables, player_id, age, count) ==
    IF count = 0 THEN [new_state |-> g, variables |-> variables]
    ELSE IF FindDrawAge(g, age) = 0
    THEN [new_state |-> g, variables |-> [variables EXCEPT !.no_cards = TRUE]]
    ELSE LET draw_age == FindDrawAge(g, age)
             deck == g.supply_decks[draw_age]
             player == g.players[PlayerIndex(g, player_id)]
             new_player == NewPlayer(player, ZoneAdd(player.hand, deck[1]),
                                     player.score_pile, player.achievements,
                                     player.board)
         IN DrawCards(WithDeck(WithPlayer(g, new_player), draw_age, Tail(deck)),
                      [variables EXCEPT !.drawn_card = deck[1].card_id,
                                        !.last_drawn_age = draw_age],
                      player_id, age, count - 1)

\* EffectResolver._step_draw
StepDraw(g, context, step) ==
    LET player_id == ResolveTargetPlayer(context, step) IN
    IF PlayerIndex(g, player_id) = 0 THEN StepError("Player not found", context)
    ELSE LET age == IF step.age = 0
                    THEN GetHighestTopCardAge(g.players[PlayerIndex(g, player_id)])
                    ELSE step.age
             drawn == DrawCards(g, context.variables, player_id, age, step.count)
         IN StepState(drawn.new_state, drawn.variables)

\* _step_meld, the card id the step names
MeldCardId(context, step) ==
    IF step.card_source \in {"choice", "chosen_card"} THEN context.variables.chosen_card
    ELSE IF step.card_source = "drawn_card" THEN context.variables.drawn_card
    ELSE step.card

\* EffectResolver._step_meld
StepMeld(g, context, step) ==
    LET player_id == ResolveTargetPlayer(context, step)
        card_id == MeldCardId(context, step)
    IN
    IF PlayerIndex(g, player_id) = 0 THEN StepError("Player not found", context)
    ELSE IF card_id = None THEN StepError("No card specified for meld", context)
    ELSE LET player == g.players[PlayerIndex(g, player_id)] IN
         IF FirstWithCardId(player.hand, card_id) = 0
         THEN StepError("Card not in hand", context)
         ELSE IF ~HasCardDef(card_id) \/ CardColor(card_id) = None
         THEN StepError("Card has no color", context)
         ELSE LET card == player.hand[FirstWithCardId(player.hand, card_id)]
                  color == CardColor(card_id)
                  new_player ==
                    NewPlayer(player, ZoneRemove(player.hand, card), player.score_pile,
                              player.achievements,
                              BoardWith(player.board, color,
                                        AddTop(GetBoardStack(player, color), card)))
              IN StepState(WithPlayer(g, new_player), context.variables)

RECURSIVE AllBoardCards(_, _)
\* _get_card_choices: the cards of every stack of the board
AllBoardCards(board, colors) ==
    IF colors = {} THEN <<>>
    ELSE LET c == CHOOSE x \in colors : TRUE IN
         board[c].cards \o AllBoardCards(board, colors \ {c})

\* EffectResolver._get_card_choices
GetCardChoices(g, player_id, choice_spec) ==
    IF PlayerIndex(g, player_id) = 0 THEN <<>>
    ELSE LET player == g.players[PlayerIndex(g, player_id)]
             cards == IF choice_spec.source = "hand" THEN player.hand
                      ELSE IF choice_spec.source = "score_pile" THEN player.score_pile
                      ELSE IF choice_spec.source = "board"
                      THEN AllBoardCards(player.board, DOMAIN player.board)
                      ELSE <<>>
         IN [i \in 1..Len(cards) |-> cards[i].card_id]

\* A choose card step that asks even when there is nothing to choose from
StepChooseCard_AlwaysAsks(g, context, step) ==
    IF step.choice_spec = NoChoiceSpec
    THEN StepError("Choose card step missing choice_spec", context)
    ELSE StepResult(NoState,
                    PendingChoice(context.effect.effect_id, step.step_id,
                                  ResolveTargetPlayer(context, step),
                                  GetCardChoices(g, ResolveTargetPlayer(context, step),
                                                 step.choice_spec),
                                  step.choice_spec),
                    NoContext, None, context.variables)

\* EffectResolver._step_choose_card
StepChooseCard(g, context, step) ==
    IF step.choice_spec = NoChoiceSpec
    THEN StepError("Choose card step missing choice_spec", context)
    ELSE LET player_id == ResolveTargetPlayer(context, step)
             options == GetCardChoices(g, player_id, step.choice_spec)
         IN IF options = <<>> /\ step.choice_spec.optional
            THEN StepState(g, context.variables)
            ELSE IF options = <<>> THEN StepError("No valid choices available", context)
            ELSE StepResult(NoState,
                            PendingChoice(context.effect.effect_id, step.step_id,
                                          player_id, options, step.choice_spec),
                            NoContext, None, context.variables)

\* ExpressionEvaluator.evaluate_condition over the expressions of the effects
EvaluateCondition(expr, context, g) ==
    LET i == PlayerIndex(g, context.source_player_id) IN
    CASE expr = "true" -> TRUE
      [] expr = "false" -> FALSE
      [] expr = "choice_made" -> context.variables.choice_made
      [] expr = "player.score_pile.count > player.hand.count" ->
            i # 0 /\ Len(g.players[i].score_pile) > Len(g.players[i].hand)
      [] OTHER -> FALSE

\* EffectResolver._step_conditional
StepConditional(g, context, step) ==
    IF step.condition = None THEN StepError("Conditional step missing condition", context)
    ELSE IF EvaluateCondition(step.condition, context, g)
    THEN StepResult(NoState, NoPending,
            EffectContext(Effect(Append(context.effect.effect_id, "then"), "action", None,
                                 step.then_steps),
                          context.source_player_id, context.variables),
            None, context.variables)
    ELSE IF step.else_steps # <<>>
    THEN StepResult(NoState, NoPending,
            EffectContext(Effect(Append(context.effect.effect_id, "else"), "action", None,
                                 step.else_steps),
                          context.source_player_id, context.variables),
            None, context.variables)
    ELSE StepState(g, context.variables)

RECURSIVE ResolveStep(_, _, _)

RECURSIVE DemandedPlayers(_, _, _, _)
\* _step_demand, demanded_players: the other players, in seating order from
\* seat i on, with fewer trigger icons than the source player
DemandedPlayers(g, source_player_id, trigger_icon, i) ==
    IF i > Len(g.players) THEN <<>>
    ELSE LET rest == DemandedPlayers(g, source_player_id, trigger_icon, i + 1)
             source == g.players[PlayerIndex(g, source_player_id)]
         IN IF /\ g.players[i].player_id # source_player_id
               /\ CountIcons(g.players[i], trigger_icon) < CountIcons(source, trigger_icon)
            THEN <<g.players[i].player_id>> \o rest
            ELSE rest

\* The outcome of the demand steps of one player: the result that was
\* returned at once, or the state the steps left
DemandOutcome(returned, result) == [returned |-> returned, result |-> result]

RECURSIVE DemandSteps(_, _, _, _)
\* _step_demand, `for demand_step in demand_steps` from step k on: a step's
\* error is skipped, its new state is kept, and a step that needs a choice
\* ends the whole handler with its own result
DemandSteps(g, demand_context, demand_steps, k) ==
    IF k > Len(demand_steps)
    THEN DemandOutcome(FALSE, StepState(g, demand_context.variables))
    ELSE LET result == ResolveStep(g, demand_context, demand_steps[k])
             written == [demand_context EXCEPT !.variables = result.variables]
         IN IF result.error # None THEN DemandSteps(g, written, demand_steps, k + 1)
            ELSE IF result.needs_choice THEN DemandOutcome(TRUE, result)
            ELSE DemandSteps(IF result.new_state # NoState THEN result.new_state ELSE g,
                             written, demand_steps, k + 1)

\* _step_demand, the context a demanded player executes the steps in. Its
\* variables are a copy of the context's; the "_demanding_player" entry, which
\* no modelled step reads, is left out
DemandContext(context, demanded_player_id, demand_steps) ==
    EffectContext(Effect(context.effect.effect_id \o <<"demand", demanded_player_id>>,
                         "action", None, demand_steps),
                  demanded_player_id, context.variables)

RECURSIVE DemandPlayers(_, _, _, _, _)
\* _step_demand, `for demanded_player_id in demanded_players` from player j on
DemandPlayers(g, context, demanded_players, demand_steps, j) ==
    IF j > Len(demanded_players) THEN StepState(g, context.variables)
    ELSE LET run == DemandSteps(g, DemandContext(context, demanded_players[j], demand_steps),
                                demand_steps, 1)
         IN IF run.returned THEN [run.result EXCEPT !.variables = context.variables]
            ELSE DemandPlayers(run.result.new_state, context, demanded_players,
                               demand_steps, j + 1)

\* EffectResolver._step_demand
StepDemand(g, context, step) ==
    IF step.loop_steps = <<>> THEN StepState(g, context.variables)
    ELSE IF PlayerIndex(g, context.source_player_id) = 0
    THEN StepError("Source player not found", context)
    ELSE LET demanded_players ==
                DemandedPlayers(g, context.source_player_id, context.effect.trigger_icon, 1)
         IN IF demanded_players = <<>> THEN StepState(g, context.variables)
            ELSE DemandPlayers(g, context, demanded_players, step.loop_steps, 1)

\* EffectResolver._step_splay setting the direction of an empty stack as well
StepSplay_EmptyToo(g, context, step) ==
    LET player_id == ResolveTargetPlayer(context, step)
        i == PlayerIndex(g, player_id)
    IN IF i = 0 THEN StepError("Player not found", context)
       ELSE LET player == g.players[i]
                direction == IF step.direction \in SplayDirections THEN step.direction
                             ELSE "none"
                new_stack == SetSplayDir(GetBoardStack(player, step.color), direction)
            IN StepState(WithPlayer(g, WithBoardStack(player, step.color, new_stack)),
                         context.variables)

\* EffectResolver._step_splay
StepSplay(g, context, step) ==
    LET player_id == ResolveTargetPlayer(context, step)
        i == PlayerIndex(g, player_id)
    IN IF i = 0 THEN StepError("Player not found", context)
       ELSE LET player == g.players[i]
                direction == IF step.direction \in SplayDirections THEN step.direction
                             ELSE "none"
                stack == GetBoardStack(player, step.color)
            IN IF stack.cards = <<>> THEN StepState(g, context.variables)
               ELSE StepState(
                        WithPlayer(g, WithBoardStack(player, step.color,
                                                     SetSplayDir(stack, direction))),
                        context.variables)

\* _step_transfer, selection "highest_age" from the hand: the index of the
\* first card whose age is above the age of every card before it and not
\* below the age of any card after it, 0 when no card of the hand has an age
HighestAgeCard(hand) ==
    IF \E i \in 1..Len(hand) : HasCardDef(hand[i].card_id) /\ CardAge(hand[i].card_id) > 0
    THEN CHOOSE i \in 1..Len(hand) :
            /\ HasCardDef(hand[i].card_id) /\ CardAge(hand[i].card_id) > 0
            /\ \A j \in 1..Len(hand) :
                    HasCardDef(hand[j].card_id) =>
                        /\ CardAge(hand[j].card_id) <= CardAge(hand[i].card_id)
                        /\ j < i => CardAge(hand[j].card_id) < CardAge(hand[i].card_id)
    ELSE 0

\* _step_transfer, the card to transfer: its index in the hand of the source
\* player, 0 when there is none
TransferCard(source_player, context, step) ==
    LET selection == IF step.selection = None THEN "choice" ELSE step.selection
        source == IF step.source = None THEN "hand" ELSE step.source
    IN IF selection = "highest_age" /\ source = "hand"
       THEN HighestAgeCard(source_player.hand)
       ELSE IF selection = "choice" /\ context.variables.chosen_card # None
       THEN FirstWithCardId(source_player.hand, context.variables.chosen_card)
       ELSE 0

\* EffectResolver._step_transfer. The source player is the step's target
\* player; the destination player is context.source_player_id when the
\* destination names an opponent and the step's target player otherwise
StepTransfer(g, context, step) ==
    LET source_player_id == ResolveTargetPlayer(context, step)
        destination == IF step.destination = None THEN "opponent_hand"
                       ELSE step.destination
        \* `"opponent" in destination`, over the destinations of the model
        dest_player_id == IF destination \in {"opponent_hand", "opponent_score"}
                          THEN context.source_player_id
                          ELSE ResolveTargetPlayer(context, step)
    IN IF PlayerIndex(g, source_player_id) = 0
       THEN StepError("Source player not found", context)
       ELSE IF PlayerIndex(g, dest_player_id) = 0
       THEN StepError("Destination player not found", context)
       ELSE LET source_player == g.players[PlayerIndex(g, source_player_id)]
                dest_player == g.players[PlayerIndex(g, dest_player_id)]
                k == TransferCard(source_player, context, step)
            IN IF k = 0 THEN StepState(g, context.variables)
               ELSE LET card == source_player.hand[k]
                        new_source_player ==
                            NewPlayer(source_player, ZoneRemove(source_player.hand, card),
                                      source_player.score_pile,
                                      source_player.achievements, source_player.board)
                        new_dest_player ==
                            NewPlayer(dest_player, ZoneAdd(dest_player.hand, card),
                                      dest_player.score_pile, dest_player.achievements,
                                      dest_player.board)
                    IN StepState(WithPlayer(WithPlayer(g, new_source_player),
                                            new_dest_player),
                                 context.variables)

\* _step_for_each, `max_iterations = step.max_iterations or 100`
DefaultMaxIterations == 100

\* _step_for_each, items: the players of the loop source. No effect of the
\* model has an expression as its loop source
LoopItems(g, context, step) ==
    LET ids == [i \in 1..Len(g.players) |-> g.players[i].player_id] IN
    CASE step.loop_source = "all_players" -> ids
      [] step.loop_source = "other_players" ->
            SelectSeq(ids, LAMBDA p : p # context.source_player_id)
      [] OTHER -> <<>>

\* The outcome of the body of one iteration: whether a result was returned at
\* once, that result or the last one, and the handler's new_state when the
\* body ended
LoopOutcome(returned, result, new_state) ==
    [returned |-> returned, result |-> result, new_state |-> new_state]

RECURSIVE ForEachSteps(_, _, _, _)
\* _step_for_each, `for sub_step in loop_steps` from step k on: an error and a
\* needed choice end the handler with the step's own result, a new state is
\* kept, a sub-context is not looked at
ForEachSteps(new_state, sub_context, loop_steps, k) ==
    IF k > Len(loop_steps)
    THEN LoopOutcome(FALSE, StepState(new_state, sub_context.variables), new_state)
    ELSE LET result == ResolveStep(new_state, sub_context, loop_steps[k])
             written == [sub_context EXCEPT !.variables = result.variables]
             kept == IF result.new_state # NoState THEN result.new_state ELSE new_state
         IN IF result.error # None THEN LoopOutcome(TRUE, result, new_state)
            ELSE IF result.needs_choice THEN LoopOutcome(TRUE, result, kept)
            ELSE ForEachSteps(kept, written, loop_steps, k + 1)

\* _step_for_each, the context of one iteration
LoopContext(context, loop_steps, iterations) ==
    EffectContext(Effect(context.effect.effect_id \o <<"loop", ToString(iterations)>>,
                         "action", None, loop_steps),
                  context.source_player_id, context.variables)

RECURSIVE ForEachItems(_, _, _, _, _, _)
\* _step_for_each, `for item in items` after `iterations` iterations: the
\* outcome of the handler, with the number of iterations that were begun
ForEachItems(new_state, context, items, loop_steps, max_iterations, iterations) ==
    IF iterations >= Len(items) \/ iterations >= max_iterations
    THEN LoopOutcome(FALSE, StepState(new_state, context.variables), new_state)
         @@ [begun |-> iterations]
    ELSE LET run == ForEachSteps(new_state, LoopContext(context, loop_steps, iterations),
                                 loop_steps, 1)
         IN IF run.returned
            THEN [run EXCEPT !.result.variables = context.variables]
                 @@ [begun |-> iterations + 1]
            ELSE ForEachItems(run.new_state, context, items, loop_steps,
                              max_iterations, iterations + 1)

\* _step_for_each, the loop as the handler runs it
ForEachLoop(g, context, step) ==
    ForEachItems(g, context, LoopItems(g, context, step), step.loop_steps,
                 IF step.max_iterations \in {-1, 0} THEN DefaultMaxIterations
                 ELSE step.max_iterations,
                 0)

\* EffectResolver._step_for_each
StepForEach(g, context, step) ==
    IF LoopItems(g, context, step) = <<>> \/ step.loop_steps = <<>>
    THEN StepState(g, context.variables)
    ELSE ForEachLoop(g, context, step).result

\* The StepType members that _resolve_step has no handler for
UnhandledSteps ==
    {"CHOOSE_ZONE", "SET_VARIABLE", "INCREMENT", "REPEAT", "EXECUTE_EFFECT",
     "SHARE_BONUS"}

\* EffectResolver._resolve_step
ResolveStep(g, context, step) ==
    CASE step.step_type = "DRAW" -> StepDraw(g, context, step)
      [] step.step_type = "MELD" -> StepMeld(g, context, step)
      [] step.step_type = "CHOOSE_CARD" -> StepChooseCard(g, context, step)
      [] step.step_type = "CONDITIONAL" -> StepConditional(g, context, step)
      [] step.step_type = "DEMAND" -> StepDemand(g, context, step)
      [] step.step_type = "SPLAY" -> StepSplay(g, context, step)
      [] step.step_type = "TRANSFER" -> StepTransfer(g, context, step)
      [] step.step_type = "FOR_EACH" -> StepForEach(g, context, step)
      [] step.step_type \in {"CHOOSE_PLAYER", "CHOOSE_OPTION"} ->
            StepState(g, context.variables)
      [] step.step_type \in UnhandledSteps -> StepError("Unknown step type", context)

\* EffectResolver._validate_choice
ValidateChoice(pending_choice, chosen_values) ==
    /\ pending_choice # NoPending
    /\ Len(chosen_values) >= pending_choice.min_choices
    /\ Len(chosen_values) <= pending_choice.max_choices
    /\ \A i \in 1..Len(chosen_values) :
        \E j \in 1..Len(pending_choice.options) :
            pending_choice.options[j] = chosen_values[i]

-----------------------------------------------------------------------------
(* The session: one canonical GameState, actions submitted to Reducer.apply *)

\* The value a reader sees through a GameState: the action_history list and
\* the nested metadata dicts are read through their references
Deep(s, hist, dicts) ==
    [f \in DOMAIN s |->
        IF f = "action_history" THEN hist[s.action_history]
        ELSE IF f = "metadata"
        THEN [k \in MetaKeys |->
                IF s.metadata[k] = 0 THEN <<FALSE, {}>>
                ELSE <<TRUE, dicts[s.metadata[k]]>>]
        ELSE s[f]]

EmptyBoard == [c \in Colors |-> EmptyStack]

MkPlayer(player_id, hand, board) ==
    [player_id |-> player_id, hand |-> hand, score_pile |-> <<>>,
     achievements |-> <<>>, board |-> board, score |-> 0]

\* The players of tests/conftest.py state_with_hands, over the model's card table
StartPlayers ==
    <<MkPlayer("human",
        <<Card("writing", "writing_h1"), Card("archery", "archery_h1")>>, EmptyBoard),
      MkPlayer("bot_1", <<Card("archery", "archery_b1")>>, EmptyBoard)>>

StartDecks ==
    (1 :> <<Card("archery", "archery_1"), Card("writing", "writing_1")>>)
    @@ (2 :> <<Card("calendar", "calendar_1")>>)

StartAchievements == <<Card("1", "achieve_1")>>

NoMetadata == [k \in MetaKeys |-> 0]

\* A choice the human player has been asked: one card out of two
StartChoice ==
    PendingChoice(<<"choose_and_meld">>, "pick", "human", <<"writing", "archery">>,
                  ChoiceSpec("hand", FALSE))

\* GameState(...) as a caller may construct it: any phase, any
\* actions_remaining, with the two players or (tests/conftest.py
\* empty_game_state) with none, with or without a choice pending
InitialStates ==
    {[phase |-> ph, turn_number |-> 0, current_player_idx |-> idx,
      actions_remaining |-> n, players |-> pl,
      supply_decks |-> StartDecks, achievements |-> StartAchievements,
      choice_required |-> ch, action_history |-> 1, metadata |-> NoMetadata] :
        ph \in {"SETUP", "PLAYING", "GAME_OVER"},
        idx \in {0},
        n \in 0..TurnActions,
        pl \in {<<>>, StartPlayers},
        ch \in {NoPending, StartChoice}}

\* The supply once the age-1 deck has been drawn out: the next non-empty deck
\* is age 2
DrainedDecks ==
    (1 :> <<>>) @@ (2 :> <<Card("calendar", "calendar_1")>>)

\* The two-player game in play, late enough that the age-1 deck is empty
DrainedStates ==
    {[s EXCEPT !.supply_decks = DrainedDecks] :
        s \in {x \in InitialStates :
                    /\ x.phase = "PLAYING"
                    /\ x.players # <<>>
                    /\ x.choice_required = NoPending}}

NoCall ==
    [called |-> FALSE, n |-> 0, action |-> ActionOf(None, None), input |-> NoState,
     before |-> NoState, result |-> Failure(None, None)]

\* The corrections a user submits in batches of any length up to MaxBatch
CorrectionPool ==
    {RawCorrection("set_card", "human_hand", "calendar", "top", None, None, None, None, None),
     RawCorrection("set_splay", None, None, None, "ghost", "red", "left", None, None),
     RawCorrection("confirm_zone", "human_hand", None, None, None, None, None, None, None),
     RawCorrection("answer_question", None, None, None, None, None, None, "q1", "a"),
     RawCorrection("answer_question", None, None, None, None, None, None, "q1", "b")}

\* The corrections a user submits one at a time
SingleCorrectionPool ==
    {RawCorrection("set_card", "human_board_red", "archery", "top", None, None, None, None, None),
     RawCorrection("set_card", "human_board_red", "test_card", "top", None, None, None, None, None),
     RawCorrection("set_card", "human_score_pile", "archery", "top", None, None, None, None, None),
     RawCorrection("set_splay", None, None, None, "human", "red", "left", None, None),
     RawCorrection("set_card_count", "human_hand", None, None, None, None, None, None, "3"),
     RawCorrection("set_deck_size", None, None, None, None, None, None, "age_1", "5"),
     RawCorrection("bogus", None, None, None, None, None, None, None, None)}

RECURSIVE SeqsUpTo(_, _)
\* the sequences over S of length at most n
SeqsUpTo(S, n) ==
    IF n = 0 THEN {<<>>}
    ELSE LET shorter == SeqsUpTo(S, n - 1) IN
         shorter \cup {Append(q, x) : q \in shorter, x \in S}

Batches ==
    SeqsUpTo(CorrectionPool, MaxBatch) \cup {<<c>> : c \in SingleCorrectionPool}

ResolverIdle == [state |-> "READY", effect_stack |-> <<>>, pending_choice |-> NoPending]
ReplayIdle == [run |-> 0]
CallIdle == [call |-> None]

SessionInit ==
    /\ state \in InitialStates \cup DrainedStates
    /\ histHeap = <<<<>>>>
    /\ dictHeap = <<>>
    /\ last = NoCall

Init ==
    /\ SessionInit
    /\ replay = ReplayIdle
    /\ resolver = ResolverIdle
    /\ game = NoState
    /\ rcall = CallIdle
    /\ iteration = 0

\* The session submits an action and keeps the new state when the call succeeds
Submit(a) ==
    /\ last.n < MaxCalls
    /\ \E r \in {ReducerApply(state, a, histHeap, dictHeap)} :
        /\ last' = [called |-> TRUE, n |-> last.n + 1, action |-> a, input |-> state,
                    before |-> Deep(state, histHeap, dictHeap), result |-> r.result]
        /\ histHeap' = r.hist
        /\ dictHeap' = r.dicts
        /\ state' = IF r.result.success THEN r.result.new_state ELSE state
    /\ UNCHANGED <<replay, resolver, game, rcall, iteration>>

\* What the session may pass to its next call: nothing once it has made
\* MaxCalls calls
Inputs(S) == IF last.n < MaxCalls THEN S ELSE {}

SubmitGenerated == \E a \in Generate(state) : Submit(a)
SubmitDraw ==
    \E x \in Inputs({<<"human", 0>>, <<"human", 1>>, <<"human", 3>>, <<"bot_1", 0>>}) :
        Submit(ActionDraw(x[1], x[2]))
SubmitMeld ==
    \E x \in Inputs({<<"human", "writing">>, <<"human", "calendar">>,
                     <<"human", "nonexistent_card">>, <<"bot_1", "archery">>}) :
        Submit(ActionMeld(x[1], x[2]))
SubmitDogma ==
    \E x \in Inputs({<<"human", "writing">>, <<"human", "archery">>,
                     <<"human", "test_card">>, <<"bot_1", "archery">>}) :
        Submit(ActionDogma(x[1], x[2]))
SubmitAchieve == \E c \in Inputs({"1", "9"}) : Submit(ActionAchieve("human", c))
SubmitPass == \E p \in Inputs(PlayerIds) : Submit(ActionOf("PASS", p))
SubmitChoose == \E p \in Inputs({"human"}) : Submit(ActionOf("CHOOSE", p))
SubmitStartTurn == \E p \in Inputs({None}) : Submit(ActionOf("START_TURN", p))
SubmitEndTurn == \E p \in Inputs(PlayerIds) : Submit(ActionOf("END_TURN", p))
SubmitVisionUpdate == \E p \in Inputs({None}) : Submit(ActionOf("VISION_UPDATE", p))
SubmitSetupGame == \E p \in Inputs({None}) : Submit(ActionOf("SETUP_GAME", p))
SubmitUserCorrection == \E b \in Inputs(Batches) : Submit(ActionUserCorrection(b))

Next ==
    \/ SubmitGenerated
    \/ SubmitDraw
    \/ SubmitMeld
    \/ SubmitDogma
    \/ SubmitAchieve
    \/ SubmitPass
    \/ SubmitChoose
    \/ SubmitStartTurn
    \/ SubmitEndTurn
    \/ SubmitVisionUpdate
    \/ SubmitSetupGame
    \/ SubmitUserCorrection

Spec == Init /\ [][Next]_vars

-----------------------------------------------------------------------------
(* Replays: one action sequence applied twice from the same initial GameState *)

\* The actions a replayed sequence is made of
ScriptActions ==
    {ActionDraw("human", 1), ActionMeld("human", "writing"), ActionOf("PASS", "human"),
     ActionOf("END_TURN", "human"), ActionOf("START_TURN", None),
     ActionUserCorrection(<<RawCorrection("answer_question", None, None, None, None,
                                          None, None, "q1", "a")>>)}

Scripts == SeqsUpTo(ScriptActions, MaxScript) \ {<<>>}

ReplayInit ==
    /\ state \in {s \in InitialStates : s.phase = "PLAYING" /\ s.players # <<>>}
    /\ histHeap = <<<<>>>>
    /\ dictHeap = <<>>
    /\ last = NoCall
    /\ \E script \in Scripts :
        replay = [run |-> 1, script |-> script, pos |-> 1, s0 |-> state,
                  final1 |-> NoState, final2 |-> NoState]
    /\ resolver = ResolverIdle
    /\ game = NoState
    /\ rcall = CallIdle
    /\ iteration = 0

\* The replay applies its next action and goes on from the new state (from
\* the same state when the action is refused)
ReplayStep ==
    /\ replay.run \in {1, 2}
    /\ replay.pos <= Len(replay.script)
    /\ \E r \in {ReducerApply(state, replay.script[replay.pos], histHeap, dictHeap)} :
        /\ histHeap' = r.hist
        /\ dictHeap' = r.dicts
        /\ state' = IF r.result.success THEN r.result.new_state ELSE state
    /\ replay' = [replay EXCEPT !.pos = @ + 1]
    /\ UNCHANGED <<last, resolver, game, rcall, iteration>>

\* The first replay is over: its final GameState is read, and the second
\* replay starts from the initial GameState the first one started from
FinishFirstReplay ==
    /\ replay.run = 1
    /\ replay.pos > Len(replay.script)
    /\ replay' = [replay EXCEPT !.run = 2, !.pos = 1,
                                 !.final1 = Deep(state, histHeap, dictHeap)]
    /\ state' = replay.s0
    /\ UNCHANGED <<histHeap, dictHeap, last, resolver, game, rcall, iteration>>

\* The second replay is over: its final GameState is read
FinishSecondReplay ==
    /\ replay.run = 2
    /\ replay.pos > Len(replay.script)
    /\ replay' = [replay EXCEPT !.run = 3,
                                 !.final2 = Deep(state, histHeap, dictHeap)]
    /\ UNCHANGED <<state, histHeap, dictHeap, last, resolver, game, rcall, iteration>>

NextReplay ==
    \/ ReplayStep
    \/ FinishFirstReplay
    \/ FinishSecondReplay

SpecReplay == ReplayInit /\ [][NextReplay]_vars

-----------------------------------------------------------------------------
(* A resolver at work: begin_effect and provide_choice calls, and inside a
   call the iterations of _continue_resolution *)

\* The effects handed to begin_effect: three dogma effects of
\* games/innovation/cards.py and effects built from the step factories
WritingDogma ==
    Effect(<<"writing_dogma">>, "dogma", "lightbulb", <<draw_step("writing_draw", 1, 2)>>)

CalendarDogma ==
    Effect(<<"calendar_dogma">>, "dogma", "leaf",
           <<conditional_step("check_score_hand",
                              "player.score_pile.count > player.hand.count",
                              <<draw_step("calendar_draw", 2, 3)>>)>>)

ClothingDogma ==
    Effect(<<"clothing_dogma">>, "dogma", "leaf",
           <<choose_card_step("choose_meld", "hand", TRUE),
             conditional_step("if_melded", "choice_made",
                              <<meld_step("meld_chosen", "chosen_card")>>)>>)

ChooseAndMeld ==
    Effect(<<"choose_and_meld">>, "action", None,
           <<choose_card_step("pick", "hand", FALSE), meld_step("meld_it", "choice")>>)

AlwaysDraw ==
    Effect(<<"always_draw">>, "action", None,
           <<conditional_step("always", "true", <<draw_step("draw_one", 1, 1)>>)>>)

UnknownThenDraw ==
    Effect(<<"unknown_then_draw">>, "action", None,
           <<bare_step("REPEAT", "again"), draw_step("draw_after", 1, 1)>>)

MeldThenDraw ==
    Effect(<<"meld_then_draw">>, "action", None,
           <<meld_step("meld_drawn", "drawn_card"), draw_step("draw_after", 1, 1)>>)

BareConditional ==
    Effect(<<"bare_conditional">>, "action", None,
           <<bare_step("CONDITIONAL", "no_condition"), draw_step("draw_after", 1, 1)>>)

\* Two optional choices and nothing else
OptionalChoices ==
    Effect(<<"optional_choices">>, "action", None,
           <<choose_card_step("maybe_hand", "hand", TRUE),
             choose_card_step("maybe_score", "score_pile", TRUE)>>)

\* A required choice from the score pile, then a draw
RequiredThenDraw ==
    Effect(<<"required_then_draw">>, "action", None,
           <<choose_card_step("must_score", "score_pile", FALSE),
             draw_step("draw_after", 1, 1)>>)

\* A demand on the lightbulb: every demanded player draws a 1
DemandDraw ==
    Effect(<<"demand_draw">>, "dogma", "lightbulb",
           <<demand_step("demand", <<draw_step("demanded_draw", 1, 1)>>)>>)

\* The red stack is splayed up
SplayRed ==
    Effect(<<"splay_red">>, "action", None, <<splay_step("splay_red_up", "red", "up")>>)

\* The dogma effect of Archery (games/innovation/cards.py): every demanded
\* player draws a 1 and transfers the highest card of the hand
ArcheryDogma ==
    Effect(<<"archery_dogma">>, "dogma", "castle",
           <<demand_step("archery_demand",
                         <<draw_step("demand_draw", 1, 1),
                           transfer_step("demand_transfer", "hand", "opponent_hand",
                                         "highest_age")>>)>>)

\* A loop over all players that is declared with no iteration at all
DealNone ==
    Effect(<<"deal_none">>, "action", None,
           <<for_each_step("deal", "all_players", <<draw_step("loop_draw", 1, 1)>>, 0)>>)

\* A loop over all players whose body draws a card and then asks for a card of
\* the hand
DealAndPick ==
    Effect(<<"deal_and_pick">>, "action", None,
           <<for_each_step("deal", "all_players",
                           <<draw_step("loop_draw", 1, 1),
                             choose_card_step("loop_pick", "hand", FALSE)>>,
                           DefaultMaxIterations)>>)

EffectLibrary ==
    {WritingDogma, CalendarDogma, ClothingDogma, ChooseAndMeld, AlwaysDraw,
     UnknownThenDraw, MeldThenDraw, BareConditional, DemandDraw, OptionalChoices,
     RequiredThenDraw, SplayRed, ArcheryDogma, DealNone, DealAndPick}

\* The players an effect is begun for; "ghost" is no player of the game
SourcePlayers == PlayerIds \cup {"ghost"}

\* The players of the resolver's games: the human player has scored a card,
\* and holds a hand or none
ScoredPlayers(hand) ==
    <<[MkPlayer("human", hand, EmptyBoard) EXCEPT
            !.score_pile = <<Card("writing", "writing_s1")>>],
      MkPlayer("bot_1", <<Card("archery", "archery_b1")>>, EmptyBoard)>>

CompassDeck == 3 :> <<Card("compass", "compass_1"), Card("compass", "compass_2")>>

\* A stack of the given cards, bottom first, splayed in a direction
StackOf(cards, splay_direction) == [cards |-> cards, splay_direction |-> splay_direction]

\* Three players with melded cards. The human shows two lightbulbs (writing)
\* and bot_2 three (archery, writing); bot_1 has calendar on top of writing
\* and shows one lightbulb, or more when the stack is splayed, and an empty
\* red stack that has kept the same splay direction
DemandSeats(splay_direction) ==
    <<MkPlayer("human", <<>>,
        [EmptyBoard EXCEPT !.blue = StackOf(<<Card("writing", "writing_m1")>>, "none")]),
      MkPlayer("bot_1", <<>>,
        [EmptyBoard EXCEPT
            !.red = StackOf(<<>>, splay_direction),
            !.blue = StackOf(<<Card("writing", "writing_m2"), Card("calendar", "calendar_m1")>>,
                             splay_direction)]),
      MkPlayer("bot_2", <<>>,
        [EmptyBoard EXCEPT
            !.red = StackOf(<<Card("archery", "archery_m1")>>, "none"),
            !.blue = StackOf(<<Card("writing", "writing_m3")>>, "none")])>>

\* Two players without cards in hand; the human has melded Archery and shows
\* two castles, bot_1 shows none
ArcherySeats ==
    <<MkPlayer("human", <<>>,
        [EmptyBoard EXCEPT !.red = StackOf(<<Card("archery", "archery_m1")>>, "none")]),
      MkPlayer("bot_1", <<>>, EmptyBoard)>>

ResolverGames ==
    {[phase |-> "PLAYING", turn_number |-> 1, current_player_idx |-> 0,
      actions_remaining |-> 1, players |-> pl, supply_decks |-> decks,
      achievements |-> StartAchievements, choice_required |-> NoPending,
      action_history |-> 1, metadata |-> NoMetadata] :
        pl \in {StartPlayers, ScoredPlayers(<<>>)},
        decks \in {StartDecks, StartDecks @@ CompassDeck}}
    \cup
    {[phase |-> "PLAYING", turn_number |-> 1, current_player_idx |-> 0,
      actions_remaining |-> 1, players |-> DemandSeats(d), supply_decks |-> StartDecks,
      achievements |-> StartAchievements, choice_required |-> NoPending,
      action_history |-> 1, metadata |-> NoMetadata] :
        d \in SplayDirections}
    \cup
    {[phase |-> "PLAYING", turn_number |-> 1, current_player_idx |-> 0,
      actions_remaining |-> 1, players |-> ArcherySeats, supply_decks |-> StartDecks,
      achievements |-> StartAchievements, choice_required |-> NoPending,
      action_history |-> 1, metadata |-> NoMetadata]}

NoEffect == [effect_id |-> <<>>]

\* What the caller of the resolver knows of its calls: the call under way or
\* last made, whether it is still running, whether it raised, the effect and
\* the game state begin_effect was given, the answer given last, the choices
\* answered so far, the first error a step returned, and whether a step ran
\* after that error
CallInit ==
    [call |-> None, running |-> FALSE, raised |-> FALSE, n |-> 0,
     effect |-> NoEffect, source_player_id |-> None, game0 |-> NoState,
     answer |-> <<>>, answered |-> {}, error |-> None, ran_after_error |-> FALSE]

ResolverInit ==
    /\ game \in ResolverGames
    /\ resolver = ResolverIdle
    /\ rcall = CallInit
    /\ state = NoState
    /\ histHeap = <<>>
    /\ dictHeap = <<>>
    /\ last = NoCall
    /\ replay = ReplayIdle
    /\ iteration = 0

Top(effect_stack) == effect_stack[Len(effect_stack)]
Pop(effect_stack) == SubSeq(effect_stack, 1, Len(effect_stack) - 1)
SetTop(effect_stack, context) == [effect_stack EXCEPT ![Len(effect_stack)] = context]

\* One more iteration of the loops of _continue_resolution (counted modulo 2)
Iterate == iteration' = 1 - iteration

\* EffectResolver.begin_effect, up to its call of _continue_resolution
BeginEffect ==
    \E effect \in EffectLibrary, source_player_id \in SourcePlayers :
        /\ ~rcall.running
        /\ rcall.n < MaxEffects
        /\ LET context == EffectContext(effect, source_player_id, NoVariables)
               shared == IF effect.effect_type = "dogma" /\ effect.trigger_icon # None
                         THEN SetupSharing(game, context, effect.trigger_icon)
                         ELSE context
           IN resolver' = [resolver EXCEPT !.effect_stack = Append(@, shared),
                                           !.state = "RESOLVING"]
        /\ rcall' = [CallInit EXCEPT !.call = "begin_effect", !.running = TRUE,
                                     !.n = rcall.n + 1, !.effect = effect,
                                     !.source_player_id = source_player_id,
                                     !.game0 = game]
        /\ UNCHANGED <<game, state, histHeap, dictHeap, last, replay, iteration>>

\* EffectResolver.provide_choice, up to its call of _continue_resolution; a
\* ValueError ends the call
ProvideChoice ==
    /\ ~rcall.running
    /\ rcall.call # None
    /\ \E choice_id \in {resolver.pending_choice.choice_id, <<"other", "choice">>},
          chosen_values \in {<<c>> : c \in {resolver.pending_choice.options[i] :
                                            i \in DOMAIN resolver.pending_choice.options}}
                            \cup {<<"nonexistent_card">>, <<>>} :
        IF \/ resolver.pending_choice = NoPending
           \/ resolver.pending_choice.choice_id # choice_id
           \/ ~ValidateChoice(resolver.pending_choice, chosen_values)
        THEN /\ rcall' = [rcall EXCEPT !.call = "provide_choice", !.raised = TRUE]
             /\ UNCHANGED resolver
        ELSE /\ resolver' =
                [resolver EXCEPT
                    !.effect_stack = SetTop(@,
                        [Top(@) EXCEPT !.resolved_choices =
                            {e \in @ : e[1] # choice_id}
                            \cup {<<choice_id, chosen_values>>}]),
                    !.pending_choice = NoPending]
             /\ rcall' = [rcall EXCEPT !.call = "provide_choice", !.raised = FALSE,
                                       !.running = TRUE, !.answer = chosen_values,
                                       !.answered = @ \cup {choice_id}]
    /\ UNCHANGED <<game, state, histHeap, dictHeap, last, replay, iteration>>

\* _continue_resolution, one iteration of the inner loop: the step at
\* current_step_index of the top context is resolved
ResolveNextStep ==
    /\ rcall.running
    /\ resolver.effect_stack # <<>>
    /\ Top(resolver.effect_stack).current_step_index
            < Len(Top(resolver.effect_stack).effect.steps)
    /\ \E context \in {Top(resolver.effect_stack)} :
       \E result \in {ResolveStep(game, context,
                                  context.effect.steps[context.current_step_index + 1])} :
       \E written \in {[context EXCEPT !.variables = result.variables]} :
        /\ rcall' = [rcall EXCEPT
                        !.running = ~result.needs_choice,
                        !.error = IF @ = None THEN result.error ELSE @,
                        !.ran_after_error = @ \/ rcall.error # None]
        /\ IF result.needs_choice
           THEN /\ resolver' = [resolver EXCEPT
                                    !.state = "WAITING_CHOICE",
                                    !.pending_choice = result.pending_choice,
                                    !.effect_stack = SetTop(@, written)]
                /\ UNCHANGED game
           ELSE /\ game' = IF result.new_state # NoState THEN result.new_state ELSE game
                /\ resolver' = [resolver EXCEPT !.effect_stack =
                        IF result.sub_context # NoContext
                        THEN Append(SetTop(@, written), result.sub_context)
                        ELSE SetTop(@, [written EXCEPT !.current_step_index = @ + 1])]
    /\ Iterate
    /\ UNCHANGED <<state, histHeap, dictHeap, last, replay>>

\* _continue_resolution, the else branch of the inner loop: the top context
\* has no step left and is popped
PopContext ==
    /\ rcall.running
    /\ resolver.effect_stack # <<>>
    /\ Top(resolver.effect_stack).current_step_index
            >= Len(Top(resolver.effect_stack).effect.steps)
    /\ resolver' = [resolver EXCEPT !.effect_stack = Pop(@)]
    /\ Iterate
    /\ UNCHANGED <<rcall, game, state, histHeap, dictHeap, last, replay>>

\* _continue_resolution, after the outer loop: the stack is empty and the
\* call returns (game_state, None)
Complete ==
    /\ rcall.running
    /\ resolver.effect_stack = <<>>
    /\ resolver' = [resolver EXCEPT !.state = "COMPLETED"]
    /\ rcall' = [rcall EXCEPT !.running = FALSE]
    /\ Iterate
    /\ UNCHANGED <<game, state, histHeap, dictHeap, last, replay>>

NextResolver ==
    \/ BeginEffect
    \/ ProvideChoice
    \/ ResolveNextStep
    \/ PopContext
    \/ Complete

\* A call under way goes through one more iteration of the loops of
\* _continue_resolution: in every state with a running call ResolveNextStep,
\* PopContext or Complete is enabled, and these are the steps that iterate
Running == rcall.running /\ Iterate

\* A call that has begun keeps running: the loops of _continue_resolution go
\* on as long as they have something to do
SpecResolver ==
    /\ ResolverInit
    /\ [][NextResolver]_vars
    /\ WF_iteration(Running)

-----------------------------------------------------------------------------
(* Counting icons: EffectResolver._count_icons on boards of every splay *)

\* The cards of a stack, bottom first: up to MaxStack different cards
StackCards ==
    {q \in SeqsUpTo(KnownCards, MaxStack) :
        \A i, j \in DOMAIN q : i # j => q[i] # q[j]}

\* The cards of the two stacks of a board: no card lies in both
StackPairs ==
    {x \in StackCards \X StackCards :
        \A i \in DOMAIN x[1] : \A j \in DOMAIN x[2] : x[1][i] # x[2][j]}

\* The boards of a player: the two stacks, splayed any way
IconBoards ==
    {[red |-> [cards |-> [i \in DOMAIN x[1] |-> Card(x[1][i], x[1][i])],
               splay_direction |-> dr],
      blue |-> [cards |-> [i \in DOMAIN x[2] |-> Card(x[2][i], x[2][i])],
                splay_direction |-> db]] :
        x \in StackPairs, dr \in SplayDirections, db \in SplayDirections}

IconGames ==
    {[phase |-> "PLAYING", turn_number |-> 1, current_player_idx |-> 0,
      actions_remaining |-> 1,
      players |-> <<MkPlayer("human", <<>>, board), MkPlayer("bot_1", <<>>, EmptyBoard)>>,
      supply_decks |-> StartDecks, achievements |-> StartAchievements,
      choice_required |-> NoPending, action_history |-> 1, metadata |-> NoMetadata] :
        board \in IconBoards}

CountIdle == [call |-> None, icon |-> None, count |-> 0]

IconsInit ==
    /\ game \in IconGames
    /\ rcall = CountIdle
    /\ resolver = ResolverIdle
    /\ state = NoState
    /\ histHeap = <<>>
    /\ dictHeap = <<>>
    /\ last = NoCall
    /\ replay = ReplayIdle
    /\ iteration = 0

\* self._count_icons(game_state, player, icon) for the first player
CallCountIcons ==
    \E icon \in (IF rcall.call = None THEN Icons ELSE {}) :
        /\ rcall' = [call |-> "_count_icons", icon |-> icon,
                     count |-> CountIcons(game.players[1], icon)]
        /\ UNCHANGED <<game, resolver, state, histHeap, dictHeap, last, replay, iteration>>

NextIcons == CallCountIcons

SpecIcons == IconsInit /\ [][NextIcons]_vars

-----------------------------------------------------------------------------
(* Properties of Reducer.apply and ActionGenerator.generate *)

RECURSIVE SumOver(_, _)
\* the sum of f[x] over the finite set D
SumOver(f, D) ==
    IF D = {} THEN 0
    ELSE LET x == CHOOSE y \in D : TRUE IN f[x] + SumOver(f, D \ {x})

\* The number of cards a player holds in the hand, the score pile, the
\* achievements and the board stacks
PlayerCards(player) ==
    Len(player.hand) + Len(player.score_pile) + Len(player.achievements)
    + SumOver([c \in DOMAIN player.board |-> Len(player.board[c].cards)],
              DOMAIN player.board)

\* The total card count of a GameState: supply decks, the achievements zone
\* and every player's zones
TotalCards(s) ==
    SumOver([age \in DOMAIN s.supply_decks |-> Len(s.supply_decks[age])],
            DOMAIN s.supply_decks)
    + Len(s.achievements)
    + SumOver([i \in DOMAIN s.players |-> PlayerCards(s.players[i])],
              DOMAIN s.players)

\* C1 (legality closure): in every state, whatever the phase and
\* actions_remaining, no action returned by ActionGenerator.generate is
\* answered with INVALID_ACTION by Reducer.apply
C1_LegalityClosure ==
    \A a \in Generate(state) :
        ReducerApply(state, a, histHeap, dictHeap).result.error_code # "INVALID_ACTION"

\* C2 (input not mutated): after a Reducer.apply call the GameState passed in
\* reads as it read before the call, its action_history list, its metadata
\* and the dicts nested in the metadata included
C2_InputNotMutated ==
    last.called => Deep(last.input, histHeap, dictHeap) = last.before

\* The action types C4 names
ConservingActions ==
    {"DRAW", "MELD", "DOGMA", "ACHIEVE", "PASS", "START_TURN", "END_TURN",
     "USER_CORRECTION"}

\* C4 (conservation): a successful Reducer.apply of DRAW, MELD, DOGMA, ACHIEVE,
\* PASS, START_TURN, END_TURN or USER_CORRECTION returns a state with the same
\* total card count as the state it was given
C4_Conservation ==
    (last.called /\ last.result.success
     /\ last.action.action_type \in ConservingActions)
        => TotalCards(last.result.new_state) = TotalCards(last.before)

\* C9 (never raises): every Reducer.apply call returns an ActionResult; no
\* exception leaves the call, whatever the player list and current_player_idx
C9_NeverRaises == last.called => ~last.result.raised

\* C10 (USER_CORRECTION all-or-nothing): when a correction batch fails, the
\* call returns a failure and the canonical state reads as it read before the
\* call, the metadata entries an earlier batch recorded included
C10_AllOrNothing ==
    (last.called /\ last.action.action_type = "USER_CORRECTION"
     /\ ~last.result.success)
        => /\ ~last.result.raised
           /\ Deep(state, histHeap, dictHeap) = last.before

\* C3 (determinism): two replays of one action sequence from the same initial
\* GameState, the second started after the first has finished, end in
\* GameStates that are equal field by field, action_history included
C3_Determinism == replay.run = 3 => replay.final1 = replay.final2

-----------------------------------------------------------------------------
(* Properties of EffectResolver *)

RECURSIVE ChoiceSteps(_)
\* The number of choice steps among the steps and the steps nested in them
ChoiceSteps(steps) ==
    IF steps = <<>> THEN 0
    ELSE (IF Head(steps).step_type \in {"CHOOSE_CARD", "CHOOSE_PLAYER", "CHOOSE_OPTION"}
          THEN 1 ELSE 0)
         + ChoiceSteps(Head(steps).then_steps) + ChoiceSteps(Head(steps).else_steps)
         + ChoiceSteps(Tail(steps))

RECURSIVE StraightRun(_, _, _, _, _)
\* The steps executed in order with the answer v known at the choice step:
\* the choice step records v as the chosen card, a conditional runs its branch
\* once, every other step is resolved by its handler
StraightRun(steps, g, variables, context, v) ==
    IF steps = <<>> THEN [game |-> g, variables |-> variables]
    ELSE LET step == Head(steps)
             here == [context EXCEPT !.variables = variables]
         IN
         IF step.step_type = "CHOOSE_CARD"
         THEN StraightRun(Tail(steps), g,
                          [variables EXCEPT !.chosen_card = IF v = <<>> THEN None ELSE v[1],
                                            !.choice_made = v # <<>>],
                          context, v)
         ELSE IF step.step_type = "CONDITIONAL" /\ step.condition # None
         THEN LET branch == IF EvaluateCondition(step.condition, here, g)
                            THEN step.then_steps ELSE step.else_steps
                  inner == StraightRun(branch, g, variables, context, v)
              IN StraightRun(Tail(steps), inner.game, variables, context, v)
         ELSE LET result == ResolveStep(g, here, step) IN
              StraightRun(Tail(steps),
                          IF result.new_state # NoState THEN result.new_state ELSE g,
                          result.variables, context, v)

\* C5 (suspend/resume equivalence): for an effect with exactly one choice
\* step, when provide_choice has returned after a valid answer v, the resolver
\* is COMPLETED and the game state is the one that executing the steps in
\* order with v known at the choice step gives
C5_SuspendResume ==
    (/\ rcall.call = "provide_choice" /\ ~rcall.running /\ ~rcall.raised
     /\ rcall.n = 1
     /\ ChoiceSteps(rcall.effect.steps) = 1)
        => /\ resolver.state = "COMPLETED"
           /\ game = StraightRun(rcall.effect.steps, rcall.game0, NoVariables,
                                 EffectContext(rcall.effect, rcall.source_player_id,
                                               NoVariables),
                                 rcall.answer).game

\* C6 (resume without re-asking): when provide_choice has returned after a
\* valid answer to the choice of step s, the resolver does not hold a
\* PendingChoice for a choice that was answered already
C6_NoReask ==
    (rcall.call = "provide_choice" /\ ~rcall.running /\ ~rcall.raised /\ rcall.n = 1)
        => resolver.pending_choice.choice_id \notin rcall.answered

\* C7 (resolver termination): every begin_effect call returns, after finitely
\* many step executions
C7_Termination == (rcall.call = "begin_effect" /\ rcall.running) ~> ~rcall.running

\* C8 (step errors abort the effect): once a step handler has returned an
\* error, no further step is executed, and the call ends with the resolver in
\* ERROR
C8_ErrorAborts ==
    /\ rcall.error # None => ~rcall.ran_after_error
    /\ (rcall.error # None /\ ~rcall.running /\ rcall.call # None)
            => resolver.state = "ERROR"

-----------------------------------------------------------------------------
(* Properties of Reducer.apply: corrections, validation, history *)

\* A USER_CORRECTION action whose corrections are all ConfirmZone
AllConfirmZone(a) ==
    /\ a.action_type = "USER_CORRECTION"
    /\ a.corrections # <<>>
    /\ \A i \in DOMAIN a.corrections : a.corrections[i].type = "confirm_zone"

\* C11 as stated (ConfirmZone is a no-op): a USER_CORRECTION whose corrections
\* are all ConfirmZone succeeds and returns a GameState equal to the input
\* GameState, as it was before the call, in every field
C11_ConfirmZoneNoOp ==
    (last.called /\ AllConfirmZone(last.action))
        => /\ last.result.success
           /\ Deep(last.result.new_state, histHeap, dictHeap) = last.before

\* C11 amended (ConfirmZone changes nothing but the history): a
\* USER_CORRECTION whose corrections are all ConfirmZone succeeds and returns
\* a GameState equal to the input GameState, as it was before the call, in
\* every field but action_history, which is the input's history followed by
\* the action
C11_ConfirmZoneKeepsState ==
    (last.called /\ AllConfirmZone(last.action))
        => /\ last.result.success
           /\ Deep(last.result.new_state, histHeap, dictHeap)
                = [last.before EXCEPT !.action_history = Append(@, last.action)]

\* A batch of two ConfirmZone corrections has been applied to a state that
\* had a history already
C11_Witness ==
    /\ last.called
    /\ AllConfirmZone(last.action)
    /\ Len(last.action.corrections) = 2
    /\ last.before.action_history # <<>>
    /\ last.result.success

\* C12 (state invariant): in every GameState the session reaches from an
\* initial state with at least one player, a valid current_player_idx and
\* actions_remaining >= 0, by any sequence of Reducer.apply calls, successful
\* or not, 0 <= current_player_idx < number of players and
\* actions_remaining >= 0; the same holds of every new_state a call returns
C12_StateInvariant ==
    NumPlayers(state) >= 1
        => /\ 0 <= state.current_player_idx
           /\ state.current_player_idx < NumPlayers(state)
           /\ state.actions_remaining >= 0
           /\ (last.called /\ last.result.success)
                => /\ 0 <= last.result.new_state.current_player_idx
                   /\ last.result.new_state.current_player_idx
                        < NumPlayers(last.result.new_state)
                   /\ last.result.new_state.actions_remaining >= 0

\* The turn has gone round the table: the last player's END_TURN succeeded and
\* the first player is the current player again
C12_Witness ==
    /\ last.called
    /\ last.action.action_type = "END_TURN"
    /\ last.result.success
    /\ last.before.current_player_idx = NumPlayers(state) - 1
    /\ NumPlayers(state) >= 2
    /\ state.current_player_idx = 0

\* The actions a pending choice is said to block
BlockedByChoice == {"DRAW", "MELD", "DOGMA", "ACHIEVE", "PASS", "END_TURN"}

\* C13 (a pending choice blocks the turn): while choice_required is set on the
\* GameState, Reducer.apply rejects every DRAW, MELD, DOGMA, ACHIEVE, PASS and
\* END_TURN action with a failure result, and the state stays as it was
C13_ChoiceBlocks ==
    (/\ last.called
     /\ last.before.choice_required # NoPending
     /\ last.action.action_type \in BlockedByChoice)
        => /\ ~last.result.success
           /\ Deep(state, histHeap, dictHeap) = last.before

\* C14 (choices are enumerated): when choice_required is set in a game that
\* is being played and the pending choice has at least min_choices options,
\* ActionGenerator.generate returns a non-empty list consisting only of CHOOSE
\* actions
C14_ChoiceActions ==
    (/\ state.phase = "PLAYING"
     /\ state.choice_required # NoPending
     /\ Len(state.choice_required.options) >= state.choice_required.min_choices)
        => /\ Generate(state) # {}
           /\ \A a \in Generate(state) : a.action_type = "CHOOSE"

\* The actions of a player's turn that the turn's owner alone may take
TurnActionTypes == {"DRAW", "MELD", "DOGMA", "ACHIEVE", "PASS"}

\* The call was rejected: a failure result without a new state
Rejected(result) ==
    /\ ~result.success
    /\ ~result.raised
    /\ result.new_state = NoState

C15_OwnershipWithPlayers ==
    (/\ last.called
     /\ last.before.phase = "PLAYING"
     /\ last.action.action_type \in TurnActionTypes
     /\ ~CurrentPlayerRaises(last.before)
     /\ CurrentPlayer(last.before).player_id # last.action.player_id)
        => /\ Rejected(last.result)
           /\ last.result.error_code = "INVALID_ACTION"

\* C16 (phase validation): in phase GAME_OVER and in phase SETUP every player
\* action (DRAW, MELD, DOGMA, ACHIEVE, PASS, CHOOSE) is rejected with a failure
\* result, while VISION_UPDATE and USER_CORRECTION pass validation in every
\* phase: the call neither raises nor returns INVALID_ACTION
C16_PhaseValidation ==
    last.called
        => /\ (/\ last.before.phase \in {"GAME_OVER", "SETUP"}
               /\ last.action.action_type \in PlayerActions)
                => /\ Rejected(last.result)
                   /\ last.result.error_code = "INVALID_ACTION"
           /\ last.action.action_type \in {"VISION_UPDATE", "USER_CORRECTION"}
                => /\ ~last.result.raised
                   /\ last.result.error_code # "INVALID_ACTION"
                   /\ ValidateAction(last.before, last.action) = None

\* A player action has been rejected during setup, after a correction was
\* applied in the same phase
C16_Witness ==
    /\ last.called
    /\ last.before.phase = "SETUP"
    /\ last.action.action_type = "DRAW"
    /\ Rejected(last.result)
    /\ Len(last.before.action_history) = 1
    /\ last.before.action_history[1].action_type = "USER_CORRECTION"

\* C17 (starting the game): from a state in phase SETUP, Reducer.apply of the
\* START_TURN action succeeds and yields a state in phase PLAYING with
\* actions_remaining > 0
C17_StartFromSetup ==
    (/\ last.called
     /\ last.before.phase = "SETUP"
     /\ last.action.action_type = "START_TURN")
        => /\ last.result.success
           /\ last.result.new_state.phase = "PLAYING"
           /\ last.result.new_state.actions_remaining > 0

\* C18 (action history): after a successful Reducer.apply(state, a),
\* new_state.action_history equals the input state's history as it was before
\* the call followed by exactly one occurrence of a; a failed apply leaves
\* every action_history list as it was
C18_History ==
    /\ []((last.called /\ last.result.success)
            => histHeap[last.result.new_state.action_history]
                = Append(last.before.action_history, last.action))
    /\ [][(last'.n = last.n + 1 /\ ~last'.result.success) => histHeap' = histHeap]_vars

\* A second action has been logged after a first
C18_Witness ==
    /\ last.called
    /\ last.result.success
    /\ Len(last.before.action_history) = 1
    /\ Len(histHeap[last.result.new_state.action_history]) = 2

-----------------------------------------------------------------------------
(* Properties of EffectResolver._count_icons and _step_demand *)

\* C20 (icon visibility): for every board and splay direction
\* EffectResolver._count_icons returns the player's count of the icon that
\* sums, over every board stack, all four positions of the top card plus, for
\* each covered card, the positions fixed by the splay direction (NONE none,
\* LEFT top_left and bottom_left, RIGHT bottom_right, UP the bottom three): the
\* value of games.innovation.icons.count_icons
C20_IconVisibility ==
    rcall.call = "_count_icons"
        => rcall.count = count_icons(game.players[1], rcall.icon)

RECURSIVE VisiblyLower(_, _, _, _)
\* The players other than the triggering player, in seating order from seat i
\* on, whose visible count of the icon is strictly lower than the triggering
\* player's; the count is the one of C20, games.innovation.icons.count_icons
VisiblyLower(g, source_player_id, icon, i) ==
    IF i > Len(g.players) THEN <<>>
    ELSE LET rest == VisiblyLower(g, source_player_id, icon, i + 1)
             source == g.players[PlayerIndex(g, source_player_id)]
         IN IF /\ g.players[i].player_id # source_player_id
               /\ count_icons(g.players[i], icon) < count_icons(source, icon)
            THEN <<g.players[i].player_id>> \o rest
            ELSE rest

\* begin_effect has returned from an effect that is one DEMAND step, begun for
\* a player of the game
DemandDone ==
    /\ rcall.call = "begin_effect"
    /\ ~rcall.running
    /\ rcall.effect = DemandDraw
    /\ PlayerIndex(rcall.game0, rcall.source_player_id) # 0

\* The state the demand leaves when the players in `demanded` execute its
\* inner steps, in this order
AfterDemand(demanded) ==
    DemandPlayers(rcall.game0,
                  EffectContext(rcall.effect, rcall.source_player_id, NoVariables),
                  demanded, rcall.effect.steps[1].loop_steps, 1).new_state

\* C19 (demand targeting): a DEMAND step executes its inner steps for exactly
\* those players other than the triggering player whose visible count of the
\* effect's trigger_icon is strictly lower than the triggering player's count;
\* players with an equal or higher count, and the triggering player, have all
\* their zones unchanged by the demand
C19_DemandTargeting ==
    DemandDone
        => \E lower \in {VisiblyLower(rcall.game0, rcall.source_player_id,
                                      rcall.effect.trigger_icon, 1)} :
            /\ game = AfterDemand(lower)
            /\ \A i \in DOMAIN game.players :
                    (\A j \in DOMAIN lower : lower[j] # game.players[i].player_id)
                        => game.players[i] = rcall.game0.players[i]

\* C19 on boards whose covered cards show the same icons to both counts: no
\* stack is splayed left or right
C19_TargetingUnsplayed ==
    (/\ DemandDone
     /\ \A i \in DOMAIN rcall.game0.players : \A c \in Colors :
            rcall.game0.players[i].board[c].splay_direction \in {"none", "up"})
        => \E lower \in {VisiblyLower(rcall.game0, rcall.source_player_id,
                                      rcall.effect.trigger_icon, 1)} :
            /\ game = AfterDemand(lower)
            /\ \A i \in DOMAIN game.players :
                    (\A j \in DOMAIN lower : lower[j] # game.players[i].player_id)
                        => game.players[i] = rcall.game0.players[i]

\* A demand has been executed by one of two opponents: the one with fewer
\* lightbulbs drew a card, the one with more did not
C19_SomeDemanded ==
    /\ DemandDone
    /\ Len(rcall.game0.players) = 3
    /\ rcall.source_player_id = "human"
    /\ rcall.game0.players[2].board["blue"].splay_direction = "none"
    /\ Len(game.players[2].hand) = Len(rcall.game0.players[2].hand) + 1
    /\ game.players[3] = rcall.game0.players[3]

-----------------------------------------------------------------------------
(* Properties of the effect steps: choices without candidates, SPLAY,
   CONDITIONAL *)

\* The first call of begin_effect on a new resolver, for this effect
FirstBegin(effect) ==
    /\ rcall.call = "begin_effect"
    /\ rcall.n = 1
    /\ rcall.effect = effect

\* No step of the effect has a candidate card for the player in this state
NoCandidates(g, player_id, effect) ==
    \A k \in DOMAIN effect.steps :
        effect.steps[k].step_type = "CHOOSE_CARD"
            => GetCardChoices(g, player_id, effect.steps[k].choice_spec) = <<>>

\* C21 (an optional choice with no candidates is skipped): when the CHOOSE_CARD
\* steps of an effect that has no other steps are optional and their source
\* zones yield no candidate cards, the steps change nothing, no PendingChoice
\* is emitted, and begin_effect ends in COMPLETED
C21_OptionalSkipped ==
    (/\ FirstBegin(OptionalChoices)
     /\ NoCandidates(rcall.game0, rcall.source_player_id, rcall.effect))
        => /\ game = rcall.game0
           /\ resolver.pending_choice = NoPending
           /\ resolver.state # "WAITING_CHOICE"
           /\ ~rcall.running => resolver.state = "COMPLETED"

\* begin_effect has returned from the two optional choices of a player of the
\* game who holds no card in the hand and none in the score pile
C21_Witness ==
    /\ FirstBegin(OptionalChoices)
    /\ ~rcall.running
    /\ PlayerIndex(rcall.game0, rcall.source_player_id) # 0
    /\ NoCandidates(rcall.game0, rcall.source_player_id, rcall.effect)
    /\ resolver.state = "COMPLETED"

\* C22 (a required choice with no candidates is an error): when a CHOOSE_CARD
\* step is not optional and its candidate set is empty, begin_effect does not
\* end in COMPLETED, and the steps after it are not executed
C22_RequiredIsError ==
    (/\ FirstBegin(RequiredThenDraw)
     /\ ~rcall.running
     /\ NoCandidates(rcall.game0, rcall.source_player_id, rcall.effect))
        => /\ resolver.state # "COMPLETED"
           /\ game = rcall.game0

\* The last call was Reducer.apply of an action of this type and it succeeded
Succeeded(action_type) ==
    /\ last.called
    /\ last.action.action_type = action_type
    /\ last.result.success

\* The state the last call returned, with its history and metadata read out
AfterLast == Deep(last.result.new_state, histHeap, dictHeap)

\* The lowest age from `age` up to MaxAge whose deck holds a card, 0 when no
\* deck does
LowestDeck(s, age) ==
    LET ages == {t \in age..MaxAge : DeckHasCards(s, t)}
    IN IF ages = {} THEN 0 ELSE CHOOSE t \in ages : \A u \in ages : t <= u

\* The age a DRAW asks for: the one it names, and for a DRAW that names none
\* the age of the acting player's highest top card
RequestedAge(s, a) ==
    IF a.age # 0 THEN a.age
    ELSE CalculateDrawAge(s.players[PlayerIndex(s, a.player_id)])

\* C23 (DRAW through the reducer): a successful DRAW with requested age a
\* removes exactly one card, the top one, from the lowest-age non-empty deck
\* with age >= a, appends that same card to the acting player's hand, and
\* leaves every other deck and every other player's zones unchanged
C23_Draw ==
    Succeeded("DRAW") =>
        LET before == last.before
            after == AfterLast
            i == PlayerIndex(before, last.action.player_id)
            k == LowestDeck(before, RequestedAge(before, last.action))
        IN /\ k # 0
           /\ DOMAIN after.supply_decks = DOMAIN before.supply_decks
           /\ after.supply_decks[k] = Tail(before.supply_decks[k])
           /\ \A t \in DOMAIN before.supply_decks :
                t # k => after.supply_decks[t] = before.supply_decks[t]
           /\ after.players[i].hand
                = Append(before.players[i].hand, Head(before.supply_decks[k]))
           /\ Len(after.players) = Len(before.players)
           /\ \A j \in 1..Len(before.players) :
                j # i => after.players[j] = before.players[j]

\* A DRAW at age 1 succeeded with the age-1 deck empty: the card came from the
\* age-2 deck
C23_Witness ==
    /\ Succeeded("DRAW")
    /\ RequestedAge(last.before, last.action) = 1
    /\ ~DeckHasCards(last.before, 1)
    /\ LowestDeck(last.before, 1) = 2
    /\ AfterLast.supply_decks[2] = <<>>

\* C24 (MELD through the reducer): a successful MELD of a card whose color is
\* c makes that card the top card of the acting player's stack c, decreases
\* that player's hand count by exactly 1, also in states produced by earlier
\* SetCard corrections, and leaves all other zones of all players and all
\* decks unchanged
C24_Meld ==
    Succeeded("MELD") =>
        LET before == last.before
            after == AfterLast
            i == PlayerIndex(before, last.action.player_id)
            c == CardColor(last.action.card_id)
        IN /\ HasTop(after.players[i].board[c])
           /\ TopCard(after.players[i].board[c]).card_id = last.action.card_id
           /\ Len(after.players[i].hand) = Len(before.players[i].hand) - 1
           /\ after.players[i].score_pile = before.players[i].score_pile
           /\ after.players[i].achievements = before.players[i].achievements
           /\ \A d \in DOMAIN before.players[i].board :
                d # c => after.players[i].board[d] = before.players[i].board[d]
           /\ \A j \in 1..Len(before.players) :
                j # i => after.players[j] = before.players[j]
           /\ after.supply_decks = before.supply_decks

\* Every deck from the age a DRAW asks for up to MaxAge is empty or missing
Exhausted(s, a) ==
    /\ PlayerIndex(s, a.player_id) # 0
    /\ LowestDeck(s, RequestedAge(s, a)) = 0

\* The last call handed its action to a handler: validation passed and the
\* action type has one
Handled ==
    /\ last.called
    /\ ~last.result.raised
    /\ last.result.error_code \notin {"INVALID_ACTION", "NO_HANDLER"}

\* C25 (supply exhaustion is distinguishable): a DRAW for which every deck
\* from the target age up to age 10 is empty or missing fails with an
\* error_code that identifies the exhaustion: it is not the error_code of a
\* validation failure nor the one of the other rejections (card not in hand,
\* player not found), which carry none
C25_ExhaustionDistinct ==
    (/\ Handled
     /\ last.action.action_type = "DRAW"
     /\ Exhausted(last.before, last.action))
        => /\ ~last.result.success
           /\ last.result.error_code # None
           /\ last.result.error_code \notin {"INVALID_ACTION", "NO_HANDLER", "HANDLER_ERROR"}

\* The action types that cost the acting player one of the turn's actions
CountedActionTypes == {"DRAW", "MELD", "DOGMA", "ACHIEVE"}

\* C30 (action accounting): each successful DRAW, MELD, DOGMA or ACHIEVE
\* decreases actions_remaining by exactly 1
C30_ActionAccounting ==
    (last.called /\ last.result.success /\ last.action.action_type \in CountedActionTypes)
        => AfterLast.actions_remaining = last.before.actions_remaining - 1

\* A DOGMA was accepted on the card the player had melded the call before
C30_Witness ==
    /\ Succeeded("DOGMA")
    /\ last.n = 2
    /\ last.before.actions_remaining = 1
    /\ AfterLast.actions_remaining = 0

\* The card is the top card of one of the player's board stacks
OnTop(s, player_id, card_id) ==
    LET i == PlayerIndex(s, player_id) IN
    /\ i # 0
    /\ \E c \in DOMAIN s.players[i].board :
            /\ HasTop(s.players[i].board[c])
            /\ TopCard(s.players[i].board[c]).card_id = card_id

\* C28 (DOGMA precondition): Reducer.apply of DOGMA(player, card_id) succeeds
\* only if the card is the current top card of one of the player's board
\* stacks and its card definition has at least one effect; a DOGMA on a top
\* card with no defined effect fails and leaves actions_remaining unchanged
C28_DogmaPrecondition ==
    /\ Succeeded("DOGMA") =>
            /\ OnTop(last.before, last.action.player_id, last.action.card_id)
            /\ HasEffects(last.action.card_id)
    /\ (/\ last.called
        /\ last.action.action_type = "DOGMA"
        /\ OnTop(last.before, last.action.player_id, last.action.card_id)
        /\ ~HasEffects(last.action.card_id))
            => /\ ~last.result.success
               /\ state.actions_remaining = last.before.actions_remaining

\* What EffectResolver.begin_effect makes of the game for the dogma of
\* Writing, whose only step draws a card: the state its DRAW step returns
WritingDogmaState(s, source_player_id) ==
    LET context == EffectContext(WritingDogma, source_player_id, NoVariables)
        shared == SetupSharing(s, context, WritingDogma.trigger_icon)
    IN ResolveStep(s, shared, WritingDogma.steps[1]).new_state

\* C29 (DOGMA runs the card's effects): a successful Reducer.apply of DOGMA
\* returns the state that EffectResolver.begin_effect produces for the card's
\* effects from the pre-action state with the acting player as source, with
\* actions_remaining decremented once; stated for Writing, whose dogma draws
\* a card into the acting player's hand
C29_DogmaRunsEffects ==
    (Succeeded("DOGMA") /\ last.action.card_id = "writing") =>
        LET resolved == WritingDogmaState(last.before, last.action.player_id)
        IN /\ AfterLast.players = resolved.players
           /\ AfterLast.supply_decks = resolved.supply_decks
           /\ AfterLast.actions_remaining = last.before.actions_remaining - 1

\* The cards the source player of the running call holds beyond those held
\* when the call began
DrawnSince ==
    LET i == PlayerIndex(rcall.game0, rcall.source_player_id)
    IN Len(game.players[i].hand) - Len(rcall.game0.players[i].hand)

\* C27 (a CONDITIONAL step is evaluated once): when its condition is true the
\* then-branch steps are executed exactly once, and after the branch
\* sub-context completes the parent context's cursor is at the step after the
\* CONDITIONAL; stated for an effect whose CONDITIONAL is always true and
\* whose then-branch draws one card
C27_ConditionalOnce ==
    (FirstBegin(AlwaysDraw) /\ PlayerIndex(rcall.game0, rcall.source_player_id) # 0)
        => /\ DrawnSince <= 1
           /\ (DrawnSince = 1 /\ Len(resolver.effect_stack) = 1)
                => Top(resolver.effect_stack).current_step_index = 1

\* The stack of the color the player holds in the state the call began from
StackBefore(color) ==
    GetBoardStack(rcall.game0.players[PlayerIndex(rcall.game0, rcall.source_player_id)],
                  color)

\* C26 (splaying an empty stack is a no-op): a SPLAY step targeting a color
\* whose stack is empty leaves the whole GameState unchanged, the splay
\* direction of the stack included, and the step reports no error
C26_SplayEmptyNoOp ==
    (/\ FirstBegin(SplayRed)
     /\ PlayerIndex(rcall.game0, rcall.source_player_id) # 0
     /\ StackBefore("red").cards = <<>>)
        => /\ game = rcall.game0
           /\ rcall.error = None
           /\ ~rcall.running => resolver.state = "COMPLETED"

\* begin_effect has returned from splaying up the empty red stack of bot_1,
\* which was and is splayed left
C26_Witness ==
    /\ FirstBegin(SplayRed)
    /\ ~rcall.running
    /\ rcall.source_player_id = "bot_1"
    /\ StackBefore("red") = StackOf(<<>>, "left")
    /\ GetBoardStack(game.players[PlayerIndex(game, "bot_1")], "red") = StackOf(<<>>, "left")
    /\ resolver.state = "COMPLETED"

\* What START_TURN gives the same state in a later turn
LaterTurnAllotment(s, a) ==
    HandleStartTurn([s EXCEPT !.turn_number = 1], a).new_state.actions_remaining

\* C31 (first-turn allotment): START_TURN applied for the first turn of the
\* game (turn_number 0) sets actions_remaining to a strictly smaller value
\* than START_TURN applied for a later turn
C31_FirstTurnAllotment ==
    (Succeeded("START_TURN") /\ last.before.turn_number = 0)
        => AfterLast.actions_remaining < LaterTurnAllotment(last.input, last.action)

\* C33 (turn order is enforced for END_TURN): Reducer.apply accepts END_TURN
\* only from the current player and only once that player has no actions
\* remaining; an END_TURN submitted for another player, or while
\* actions_remaining > 0, does not advance current_player_idx
C33_EndTurnOrder ==
    (/\ last.called
     /\ last.action.action_type = "END_TURN"
     /\ last.before.players # <<>>
     /\ \/ last.action.player_id # CurrentPlayer(last.before).player_id
        \/ last.before.actions_remaining > 0)
        => /\ ~last.result.success
           /\ state.current_player_idx = last.before.current_player_idx

\* The last call was an END_TURN that ActionGenerator.generate had offered for
\* the state it was applied to, and it succeeded
OfferedEndTurn ==
    /\ Succeeded("END_TURN")
    /\ last.action \in Generate(last.input)

\* Some action offered for the state succeeds and stays in the same turn
TurnGoesOn(s) ==
    \E a \in Generate(s) :
        LET r == ReducerApply(s, a, histHeap, dictHeap).result
        IN r.success /\ r.new_state.turn_number = s.turn_number

\* C32 (turn cycle liveness): a caller that only submits actions returned by
\* ActionGenerator.generate reaches, after the current player's END_TURN, a
\* state in which the next player (index advanced by one modulo the player
\* count, turn_number incremented by one) has actions_remaining > 0: the turn
\* the END_TURN opens either starts with actions or offers an action that
\* stays in that turn, and END_TURN is not the only way on
C32_TurnCycle ==
    OfferedEndTurn =>
        /\ state.current_player_idx
                = (last.before.current_player_idx + 1) % Len(last.before.players)
        /\ state.turn_number = last.before.turn_number + 1
        /\ state.actions_remaining > 0 \/ TurnGoesOn(state)

-----------------------------------------------------------------------------
(* games/innovation/state.py: InnovationPlayer *)

RECURSIVE SumAges(_, _)
\* the sum of card_def.age over the first k cards
SumAges(cards, k) ==
    IF k = 0 THEN 0 ELSE SumAges(cards, k - 1) + CardAge(cards[k].card_id)

\* InnovationPlayer.compute_score: the ages of the cards of the score pile
compute_score(player) == SumAges(player.score_pile, Len(player.score_pile))

\* InnovationPlayer.compute_highest_age: 0 without a top card
compute_highest_age(player) ==
    LET ages == {CardAge(TopCard(player.board[c]).card_id) :
                    c \in {c \in DOMAIN player.board : HasTop(player.board[c])}}
                \cup {0}
    IN CHOOSE m \in ages : \A x \in ages : x <= m

\* InnovationPlayer.can_achieve
can_achieve(player, achievement_age) ==
    /\ compute_score(player) >= achievement_age * 5
    /\ compute_highest_age(player) >= achievement_age

-----------------------------------------------------------------------------
(* ActionGenerator.generate over score piles and boards *)

\* The most cards of one kind in a score pile
MaxPile == 5

\* The instance ids of scored cards, by position in the pile
PileIds ==
    <<"scored_1", "scored_2", "scored_3", "scored_4", "scored_5", "scored_6",
      "scored_7", "scored_8">>

\* Score piles: up to MaxPile cards of one kind, and possibly one more card
ScorePiles ==
    {[k \in 1..Len(q) |-> Card(q[k], PileIds[k])] :
        q \in {[k \in 1..n |-> c] \o extra :
                n \in 0..MaxPile, c \in {"archery", "calendar", "compass"},
                extra \in {<<>>, <<"archery">>, <<"calendar">>}}}

\* Boards with at most one card, on the blue or the red stack
TopBoards ==
    {EmptyBoard,
     [EmptyBoard EXCEPT !.red = StackOf(<<Card("archery", "archery_m1")>>, "none")],
     [EmptyBoard EXCEPT !.blue = StackOf(<<Card("calendar", "calendar_m1")>>, "none")]}

\* The shared achievements: as in the card game, cards of the table set aside,
\* one of age 1 and one of age 2
AgedAchievements == <<Card("writing", "achieve_1"), Card("calendar", "achieve_2")>>

AchieveGames ==
    {[phase |-> "PLAYING", turn_number |-> 1, current_player_idx |-> 0,
      actions_remaining |-> 1,
      players |-> <<[MkPlayer("human", <<>>, board) EXCEPT !.score_pile = pile],
                    MkPlayer("bot_1", <<>>, EmptyBoard)>>,
      supply_decks |-> StartDecks, achievements |-> AgedAchievements,
      choice_required |-> NoPending, action_history |-> 1, metadata |-> NoMetadata] :
        board \in TopBoards, pile \in ScorePiles}

GenerateIdle == [call |-> None, offered |-> {}]

AchieveInit ==
    /\ game \in AchieveGames
    /\ rcall = GenerateIdle
    /\ resolver = ResolverIdle
    /\ state = NoState
    /\ histHeap = <<>>
    /\ dictHeap = <<>>
    /\ last = NoCall
    /\ replay = ReplayIdle
    /\ iteration = 0

\* ActionGenerator(spec).generate(game): the actions it returns
CallGenerate ==
    /\ rcall.call = None
    /\ rcall' = [call |-> "generate", offered |-> Generate(game)]
    /\ UNCHANGED <<game, resolver, state, histHeap, dictHeap, last, replay, iteration>>

NextAchieve == CallGenerate

SpecAchieve == AchieveInit /\ [][NextAchieve]_vars

\* C34 (achievement eligibility): in a PLAYING state with actions remaining,
\* ActionGenerator.generate contains ACHIEVE(p, a) for an achievement a of the
\* shared achievement zone if and only if the current player's score, the sum
\* of the ages of the cards in the score pile, is at least 5 times the age of
\* a and the highest age among the player's top board cards is at least the
\* age of a, which is what InnovationPlayer.can_achieve computes
C34_AchieveEligibility ==
    rcall.call = "generate" =>
        \A k \in DOMAIN game.achievements :
            LET a == game.achievements[k].card_id
                p == CurrentPlayer(game)
            IN ActionAchieve(p.player_id, a) \in rcall.offered
                    <=> can_achieve(p, CardAge(a))

\* The same for the players whose score pile holds cards of age 1 only and
\* whose board has a top card: there the count of the pile is the sum of its
\* ages and the two highest-age computations agree
C34_EligibilityAgeOne ==
    (/\ rcall.call = "generate"
     /\ \A k \in DOMAIN CurrentPlayer(game).score_pile :
            CardAge(CurrentPlayer(game).score_pile[k].card_id) = 1
     /\ compute_highest_age(CurrentPlayer(game)) >= 1)
        => \A k \in DOMAIN game.achievements :
            LET a == game.achievements[k].card_id
                p == CurrentPlayer(game)
            IN ActionAchieve(p.player_id, a) \in rcall.offered
                    <=> can_achieve(p, CardAge(a))

-----------------------------------------------------------------------------
(* Properties of the loops of the resolver: FOR_EACH, DEMAND and TRANSFER *)

\* The effect that was begun last, for a player of the game, has a FOR_EACH as
\* its only step
LoopBegun ==
    /\ rcall.call # None
    /\ Len(rcall.effect.steps) = 1
    /\ rcall.effect.steps[1].step_type = "FOR_EACH"
    /\ PlayerIndex(rcall.game0, rcall.source_player_id) # 0

\* The number of cards in the supply decks of a state
SupplyCards(s) ==
    SumOver([age \in DOMAIN s.supply_decks |-> Len(s.supply_decks[age])],
            DOMAIN s.supply_decks)

\* C35 (FOR_EACH bound): the body of a FOR_EACH step is executed at most
\* max_iterations times, for every declared value of max_iterations, 0
\* included. For a body that is one DRAW of one card: when begin_effect has
\* returned, the supply holds at most max_iterations cards fewer than before
C35_ForEachBound ==
    (/\ LoopBegun
     /\ rcall.call = "begin_effect"
     /\ ~rcall.running
     /\ rcall.effect.steps[1].max_iterations >= 0
     /\ rcall.effect.steps[1].loop_steps = <<draw_step("loop_draw", 1, 1)>>)
        => SupplyCards(rcall.game0) - SupplyCards(game)
                <= rcall.effect.steps[1].max_iterations


\* The FOR_EACH of the effect begun last, as its handler runs it on the state
\* begin_effect was given
FirstLoopRun ==
    ForEachLoop(rcall.game0,
                EffectContext(rcall.effect, rcall.source_player_id, NoVariables),
                rcall.effect.steps[1])

\* C36 (suspension inside a loop): when a body step of a FOR_EACH needs a
\* choice, the game state returned with the PendingChoice contains the changes
\* of the inner steps that ran before it, and after provide_choice the loop
\* goes on from that iteration: the choice that was answered is not asked again
C36_LoopSuspension ==
    /\ (/\ LoopBegun
        /\ rcall.call = "begin_effect"
        /\ ~rcall.running
        /\ resolver.state = "WAITING_CHOICE")
            => game = FirstLoopRun.new_state
    /\ (/\ LoopBegun
        /\ rcall.call = "provide_choice"
        /\ ~rcall.running
        /\ ~rcall.raised)
            => resolver.pending_choice.choice_id \notin rcall.answered

\* The second half of C36 alone
C36_ResumesPastChoice ==
    (/\ LoopBegun
     /\ rcall.call = "provide_choice"
     /\ ~rcall.running
     /\ ~rcall.raised)
        => resolver.pending_choice.choice_id \notin rcall.answered

\* begin_effect has returned from the dogma effect of Archery, begun for a
\* player of the game
ArcheryDone ==
    /\ rcall.call = "begin_effect"
    /\ ~rcall.running
    /\ rcall.effect = ArcheryDogma
    /\ PlayerIndex(rcall.game0, rcall.source_player_id) # 0

\* Whether the demand of the effect begun last was made on the player
Demanded(player_id) ==
    \E d \in {DemandedPlayers(rcall.game0, rcall.source_player_id,
                              rcall.effect.trigger_icon, 1)} :
        \E j \in DOMAIN d : d[j] = player_id

\* C37 (TRANSFER inside a DEMAND): the card a demanded player transfers to the
\* opponent's hand leaves the demanded player's hand and is added once to the
\* hand of the player who triggered the demand. After Archery's demand (draw a
\* 1, transfer the highest card of the hand) a demanded player who had no card
\* has none, and the triggering player has received the cards that were drawn
C37_DemandTransfer ==
    ArcheryDone
        => /\ \A i \in DOMAIN game.players :
                (/\ Demanded(game.players[i].player_id)
                 /\ rcall.game0.players[i].hand = <<>>)
                    => game.players[i].hand = <<>>
           /\ \E k \in {PlayerIndex(game, rcall.source_player_id)} :
                ((\A i \in DOMAIN game.players :
                    Demanded(game.players[i].player_id)
                        => rcall.game0.players[i].hand = <<>>)
                    => Len(game.players[k].hand)
                        = Len(rcall.game0.players[k].hand)
                          + SupplyCards(rcall.game0) - SupplyCards(game))

\* C40 (conservation in the resolver): the steps of the resolver only move
\* cards, so the game state a begin_effect or provide_choice call returns has
\* the total card count of the state begin_effect was given
C40_ResolverConservation ==
    (rcall.call # None /\ ~rcall.running /\ ~rcall.raised)
        => TotalCards(game) = TotalCards(rcall.game0)

\* C40 for the effects without a TRANSFER step
C40_ConservationWithoutTransfer ==
    (rcall.call # None /\ ~rcall.running /\ ~rcall.raised /\ rcall.n = 1
     /\ rcall.effect # ArcheryDogma)
        => TotalCards(game) = TotalCards(rcall.game0)

-----------------------------------------------------------------------------
(* Properties of the sharing bookkeeping *)

\* begin_effect has just set up the context of a dogma effect with a trigger
\* icon, for a player of the game: no step has been resolved yet
DogmaBegun ==
    /\ rcall.call = "begin_effect"
    /\ rcall.running
    /\ rcall.effect.effect_type = "dogma"
    /\ rcall.effect.trigger_icon # None
    /\ PlayerIndex(rcall.game0, rcall.source_player_id) # 0
    /\ resolver.effect_stack # <<>>
    /\ Top(resolver.effect_stack).effect = rcall.effect
    /\ Top(resolver.effect_stack).source_player_id = rcall.source_player_id
    /\ Top(resolver.effect_stack).current_step_index = 0
    /\ game = rcall.game0

\* The players the context on top of the stack records as sharing
Sharing == {Top(resolver.effect_stack).players_who_shared[j] :
                j \in DOMAIN Top(resolver.effect_stack).players_who_shared}

\* The players of the game other than the triggering player
Others == {rcall.game0.players[i].player_id : i \in DOMAIN rcall.game0.players}
            \ {rcall.source_player_id}

\* The visible count of the trigger icon on a player's board, by the
\* visibility rule of C20 (games.innovation.icons.count_icons)
VisibleCount(player_id) ==
    count_icons(rcall.game0.players[PlayerIndex(rcall.game0, player_id)],
                rcall.effect.trigger_icon)

\* C38 (sharing set): begin_effect on a dogma effect with a trigger_icon
\* records as sharing exactly the other players whose visible count of the
\* icon is greater than or equal to the triggering player's, and every other
\* player is either in the sharing set or in the demanded set, never in both
C38_SharingSet ==
    DogmaBegun
        => /\ Sharing = {p \in Others :
                            VisibleCount(p) >= VisibleCount(rcall.source_player_id)}
           /\ \A p \in Others : (p \in Sharing) # Demanded(p)

\* The second half of C38: the sharing set and the demanded set of
\* _step_demand divide the other players
C38_SharingOrDemanded ==
    DogmaBegun => /\ Sharing \subseteq Others
                  /\ \A p \in Others : (p \in Sharing) # Demanded(p)

\* C38 on boards whose covered cards show the same icons to both counts: no
\* stack is splayed left or right
C38_SharingUnsplayed ==
    (/\ DogmaBegun
     /\ \A i \in DOMAIN rcall.game0.players : \A c \in Colors :
            rcall.game0.players[i].board[c].splay_direction \in {"none", "up"})
        => /\ Sharing = {p \in Others :
                            VisibleCount(p) >= VisibleCount(rcall.source_player_id)}
           /\ \A p \in Others : (p \in Sharing) # Demanded(p)

\* A dogma effect has been begun with one opponent sharing and another not
C38_SomeSharing ==
    /\ DogmaBegun
    /\ Sharing # {}
    /\ Sharing # Others

\* The context on top of the stack has pending share-bonus bookkeeping and at
\* least one sharing player, and its step list is exhausted
ShareBonusDue ==
    /\ rcall.running
    /\ resolver.effect_stack # <<>>
    /\ Top(resolver.effect_stack).current_step_index
            >= Len(Top(resolver.effect_stack).effect.steps)
    /\ Top(resolver.effect_stack).share_bonus_pending
    /\ Top(resolver.effect_stack).players_who_shared # <<>>

\* C39 (share bonus): when the step list of a context with pending share-bonus
\* bookkeeping and at least one sharing player is exhausted, the share bonus
\* is applied before the resolver moves on: the step that takes the context
\* off the stack does more than take it off
C39_ShareBonusApplied ==
    [][ShareBonusDue
        => ~(/\ resolver' = [resolver EXCEPT !.effect_stack = Pop(@)]
             /\ game' = game
             /\ rcall' = rcall)]_vars

=============================================================================
